---- MODULE Spec2Model ----
(***************************************************************************)
(* sportypy: the geometry primitives (create_shapes), the coordinate       *)
(* transforms (transformations), the features, the surfaces, the          *)
(* generators of the NCAA basketball court, the plot decorator and the     *)
(* request helper of the scrapers, as a state machine.                     *)
(*                                                                         *)
(* A state holds the Python heap (data frames, dicts, surfaces, the frame  *)
(* of a running call: objects with an identity, so that aliasing and       *)
(* in-place writes are visible) and the                                    *)
(* log of the calls the caller has made.  Every number of a data frame is  *)
(* a binary floating-point number: the model keeps the structure of        *)
(* float64 (round to nearest, ties to even, on every operation) at a       *)
(* reduced width, see Float.                                               *)
(***************************************************************************)
EXTENDS Integers, Sequences, FiniteSets, TLC

VARIABLES
    heap,   \* the objects allocated so far; a reference is an index
    calls   \* the calls made so far, oldest first

vars == <<heap, calls>>

(***************************************************************************)
(* Bounds                                                                  *)
(***************************************************************************)
\* the longest point sequence the caller builds by hand
MaxLen == 2
\* the number of transform calls made after the first frame is created
MaxCalls == 2
\* the largest number of points asked of circle()
MaxPoints == 3

(***************************************************************************)
(* Floating point.  A number is an integer count of units of 2^-frac; it   *)
(* is representable when it has at most prec significant bits.  float64    *)
(* is prec = 53; the model keeps the same rounding rule at prec = 8.       *)
(***************************************************************************)
Float == [prec |-> 8, frac |-> 12]

One == 2 ^ Float.frac
Two == 2 * One
Half == One \div 2
Quarter == One \div 4
\* half a unit in the last place of 1.0: the largest x with 1.0 + x = 1.0
Tiny == One \div (2 ^ Float.prec)
\* the machine epsilon is 1 / EpsInv
EpsInv == 2 ^ (Float.prec - 1)

Abs(n) == IF n < 0 THEN -n ELSE n

Max(a, b) == IF a >= b THEN a ELSE b

\* the least magnitude that needs more than prec significant bits
Limit == 2 ^ Float.prec

\* the spacing of the representable numbers around magnitude a
RECURSIVE Quantum(_)
Quantum(a) == IF a < Limit THEN 1 ELSE 2 * Quantum(a \div 2)

\* the rational n / d (d > 0) rounded to the nearest representable number,
\* ties to the even significand
RoundTo(a, dq, q) ==
    LET m == a \div dq
        rem == a % dq
    IN  IF 2 * rem > dq \/ (2 * rem = dq /\ m % 2 = 1)
        THEN (m + 1) * q
        ELSE m * q

RoundAbs(a, d) == LET q == Quantum(a \div d) IN RoundTo(a, d * q, q)

Round(n, d) == IF n < 0 THEN -RoundAbs(-n, d) ELSE RoundAbs(n, d)

fadd(a, b) == Round(a + b, 1)
fsub(a, b) == Round(a - b, 1)
fmul(a, b) == Round(a * b, One)
fdiv(a, b) == IF b < 0 THEN Round(-(a * One), -b) ELSE Round(a * One, b)

\* np.pi: the representable number nearest to pi (355/113 lies in the same
\* rounding interval)
NpPi == Round(355 * One, 113)

\* math.cos and math.sin: the correctly rounded values at the angles the
\* model reaches (the multiples of pi / 4 of rotate(), the angles that
\* np.linspace() lays between 0, pi / 2, pi and 2 pi for circle(), the
\* angles of the arcs of the features)
TrigTable ==
    (0 :> [cos |-> One, sin |-> 0])
     @@ (1600 :> [cos |-> 3792, sin |-> 1560])
     @@ (1608 :> [cos |-> 3792, sin |-> 1568])
     @@ (2128 :> [cos |-> 3552, sin |-> 2032])
     @@ (2144 :> [cos |-> 3552, sin |-> 2048])
     @@ (3200 :> [cos |-> 2912, sin |-> 2880])
     @@ (NpPi \div 4 :> [cos |-> 2896, sin |-> 2896])
     @@ (4256 :> [cos |-> 2080, sin |-> 3536])
     @@ (4288 :> [cos |-> 2048, sin |-> 3552])
     @@ (4832 :> [cos |-> 1560, sin |-> 3792])
     @@ (5344 :> [cos |-> 1080, sin |-> 3952])
     @@ (5536 :> [cos |-> 892, sin |-> 4000])
     @@ (6400 :> [cos |-> 34, sin |-> One])
     @@ (NpPi \div 2 :> [cos |-> 2, sin |-> One])
     @@ (7488 :> [cos |-> -1040, sin |-> 3968])
     @@ (8032 :> [cos |-> -1560, sin |-> 3792])
     @@ (8576 :> [cos |-> -2048, sin |-> 3552])
     @@ (9664 :> [cos |-> -2912, sin |-> 2880])
     @@ (10752 :> [cos |-> -3568, sin |-> 2024])
     @@ (11264 :> [cos |-> -3792, sin |-> 1560])
     @@ (NpPi :> [cos |-> -One, sin |-> 4])
     @@ (12928 :> [cos |-> -One, sin |-> -60])
     @@ (16064 :> [cos |-> -2912, sin |-> -2880])
     @@ (16128 :> [cos |-> -2864, sin |-> -2928])
     @@ (17152 :> [cos |-> -2048, sin |-> -3552])
     @@ (18176 :> [cos |-> -1112, sin |-> -3936])
     @@ (19328 :> [cos |-> 26, sin |-> -One])
     @@ (20352 :> [cos |-> 1040, sin |-> -3968])
     @@ (20864 :> [cos |-> 1528, sin |-> -3808])
     @@ (21376 :> [cos |-> 1984, sin |-> -3584])
     @@ (21504 :> [cos |-> 2096, sin |-> -3520])
     @@ (22528 :> [cos |-> 2896, sin |-> -2896])
     @@ (2 * NpPi :> [cos |-> One, sin |-> -8])

MathCos(theta) == TrigTable[Abs(theta)].cos

MathSin(theta) ==
    IF theta < 0 THEN -TrigTable[-theta].sin ELSE TrigTable[theta].sin

(***************************************************************************)
(* pandas: series arithmetic and data frames on the heap                   *)
(***************************************************************************)
\* scalar * series, series + scalar, series - series, series + series
SMul(k, s) == [i \in DOMAIN s |-> fmul(k, s[i])]
SAddK(s, k) == [i \in DOMAIN s |-> fadd(s[i], k)]
SSub(s, t) == [i \in DOMAIN s |-> fsub(s[i], t[i])]
SAdd(s, t) == [i \in DOMAIN s |-> fadd(s[i], t[i])]

\* a mutant of DfCopy: the "copy" is the same object
DfAlias(h, df) == [heap |-> h, ref |-> df]

\* df.copy(): a new object holding the same columns
DfCopy(h, df) == [heap |-> Append(h, h[df]), ref |-> Len(h) + 1]

\* pd.DataFrame({'x': xs, 'y': ys}): a new object
NewFrame(h, xs, ys) ==
    [heap |-> Append(h, [x |-> xs, y |-> ys]), ref |-> Len(h) + 1]

\* frame[col] = values, in place
SetX(h, ref, values) == [h EXCEPT ![ref].x = values]
SetY(h, ref, values) == [h EXCEPT ![ref].y = values]

(***************************************************************************)
(* Python strings, as sequences of characters                              *)
(***************************************************************************)
UpperToLower ==
    [c \in {"A", "B", "C", "D", "E", "F", "G", "H", "I", "J", "K", "L", "M",
            "N", "O", "P", "Q", "R", "S", "T", "U", "V", "W", "X", "Y", "Z"} |->
        CASE c = "A" -> "a" [] c = "B" -> "b" [] c = "C" -> "c" [] c = "D" -> "d"
          [] c = "E" -> "e" [] c = "F" -> "f" [] c = "G" -> "g" [] c = "H" -> "h"
          [] c = "I" -> "i" [] c = "J" -> "j" [] c = "K" -> "k" [] c = "L" -> "l"
          [] c = "M" -> "m" [] c = "N" -> "n" [] c = "O" -> "o" [] c = "P" -> "p"
          [] c = "Q" -> "q" [] c = "R" -> "r" [] c = "S" -> "s" [] c = "T" -> "t"
          [] c = "U" -> "u" [] c = "V" -> "v" [] c = "W" -> "w" [] c = "X" -> "x"
          [] c = "Y" -> "y" [] c = "Z" -> "z"]

\* a mutant of Lower: the direction is compared as it was written
LowerNot(s) == s

\* str.lower()
Lower(s) ==
    [i \in DOMAIN s |->
        IF s[i] \in DOMAIN UpperToLower THEN UpperToLower[s[i]] ELSE s[i]]

\* the names rotate() takes for the counter-clockwise direction
CcwNames ==
    { <<"c", "c", "w">>,
      <<"c", "o", "u", "n", "t", "e", "r">>,
      <<"c", "o", "u", "n", "t", "e", "r",
        "c", "l", "o", "c", "k", "w", "i", "s", "e">> }

(***************************************************************************)
(* transformations.py.  Each function takes the heap and a reference to    *)
(* the caller's frame and gives the heap after the call and the reference  *)
(* it returns.                                                             *)
(***************************************************************************)
\* a mutant of Reflect: each flag negates the coordinate of its own name
ReflectSwapped(h, df, over_x, over_y) ==
    LET c0 == DfCopy(h, df)
        c1 == IF over_x
              THEN NewFrame(c0.heap, SMul(-One, c0.heap[c0.ref].x),
                            c0.heap[c0.ref].y)
              ELSE c0
    IN  IF over_y
        THEN NewFrame(c1.heap, c1.heap[c1.ref].x,
                      SMul(-One, c1.heap[c1.ref].y))
        ELSE c1

\* a mutant of Reflect: the reflection over y reads the wrong column
ReflectColumnTypo(h, df, over_x, over_y) ==
    LET c0 == DfCopy(h, df)
        c1 == IF over_y
              THEN NewFrame(c0.heap, SMul(-One, c0.heap[c0.ref].y),
                            c0.heap[c0.ref].y)
              ELSE c0
    IN  IF over_x
        THEN NewFrame(c1.heap, c1.heap[c1.ref].x,
                      SMul(-One, c1.heap[c1.ref].y))
        ELSE c1

Reflect(h, df, over_x, over_y) ==
    LET c0 == DfCopy(h, df)
        c1 == IF over_y
              THEN NewFrame(c0.heap, SMul(-One, c0.heap[c0.ref].x),
                            c0.heap[c0.ref].y)
              ELSE c0
    IN  IF over_x
        THEN NewFrame(c1.heap, c1.heap[c1.ref].x,
                      SMul(-One, c1.heap[c1.ref].y))
        ELSE c1

\* a mutant of BaseHockeyFeature._reflect: the negated columns are written
\* into the caller's frame, which is returned
BaseHockeyFeature_reflectInPlace(h, df, over_x, over_y) ==
    LET h1 == IF over_x THEN SetY(h, df, SMul(-One, h[df].y)) ELSE h
        h2 == IF over_y THEN SetX(h1, df, SMul(-One, h1[df].x)) ELSE h1
    IN  [heap |-> h2, ref |-> df]

\* hockey_features.py, BaseHockeyFeature._reflect: the features' own
\* reflection, which writes the negated columns into a copy
BaseHockeyFeature_reflect(h, df, over_x, over_y) ==
    LET c0 == DfCopy(h, df)
        h1 == IF over_x
              THEN SetY(c0.heap, c0.ref, SMul(-One, c0.heap[df].y))
              ELSE c0.heap
        h2 == IF over_y
              THEN SetX(h1, c0.ref, SMul(-One, h1[df].x))
              ELSE h1
    IN  [heap |-> h2, ref |-> c0.ref]

\* a mutant of Rotate: the new y is computed from the rotated frame
RotateFromRotated(h, df, rotation_dir, angle) ==
    LET a == IF Lower(rotation_dir) \notin CcwNames
             THEN fmul(angle, -One) ELSE angle
        theta == fmul(a, NpPi)
        c0 == DfCopy(h, df)
        h1 == SetX(c0.heap, c0.ref,
                   SSub(SMul(MathCos(theta), c0.heap[df].x),
                        SMul(MathSin(theta), c0.heap[df].y)))
        h2 == SetY(h1, c0.ref,
                   SAdd(SMul(MathSin(theta), h1[c0.ref].x),
                        SMul(MathCos(theta), h1[c0.ref].y)))
    IN  [heap |-> h2, ref |-> c0.ref]

Rotate(h, df, rotation_dir, angle) ==
    LET a == IF Lower(rotation_dir) \notin CcwNames
             THEN fmul(angle, -One) ELSE angle
        theta == fmul(a, NpPi)
        c0 == DfCopy(h, df)
        h1 == SetX(c0.heap, c0.ref,
                   SSub(SMul(MathCos(theta), c0.heap[df].x),
                        SMul(MathSin(theta), c0.heap[df].y)))
        h2 == SetY(h1, c0.ref,
                   SAdd(SMul(MathSin(theta), h1[df].x),
                        SMul(MathCos(theta), h1[df].y)))
    IN  [heap |-> h2, ref |-> c0.ref]

\* a mutant of Translate: translate_x is added to both columns
TranslateXTwice(h, df, translate_x, translate_y) ==
    LET c0 == DfCopy(h, df)
        h1 == SetX(c0.heap, c0.ref, SAddK(c0.heap[c0.ref].x, translate_x))
        h2 == SetY(h1, c0.ref, SAddK(h1[c0.ref].y, translate_x))
    IN  [heap |-> h2, ref |-> c0.ref]

Translate(h, df, translate_x, translate_y) ==
    LET c0 == DfCopy(h, df)
        h1 == SetX(c0.heap, c0.ref, SAddK(c0.heap[c0.ref].x, translate_x))
        h2 == SetY(h1, c0.ref, SAddK(h1[c0.ref].y, translate_y))
    IN  [heap |-> h2, ref |-> c0.ref]

\* a mutant of Scale: only the x column is scaled
ScaleXOnly(h, df, scale_factor) ==
    LET c0 == DfCopy(h, df)
        h1 == SetX(c0.heap, c0.ref, SMul(scale_factor, c0.heap[c0.ref].x))
    IN  [heap |-> h1, ref |-> c0.ref]

Scale(h, df, scale_factor) ==
    LET c0 == DfCopy(h, df)
        h1 == SetX(c0.heap, c0.ref, SMul(scale_factor, c0.heap[c0.ref].x))
        h2 == SetY(h1, c0.ref, SMul(scale_factor, h1[c0.ref].y))
    IN  [heap |-> h2, ref |-> c0.ref]

(***************************************************************************)
(* create_shapes.py.  A generator gives the heap after the call, the       *)
(* reference it returns (0 when it returns nothing) and the exception it   *)
(* raised ("" when it returned).                                           *)
(***************************************************************************)
Returned(r) == [heap |-> r.heap, ref |-> r.ref, raised |-> ""]

Raised(h, exception) == [heap |-> h, ref |-> 0, raised |-> exception]

\* the names bound at the top level of create_shapes.py
CreateShapesGlobals == {"np", "pd", "circle", "rectangle", "square", "diamond"}

\* np.linspace(start, stop, num), endpoint = True: the samples are
\* arange(num) * step + start with step = (stop - start) / (num - 1), and
\* the last of two or more samples is set to stop itself
NpLinspace(start, stop, num) ==
    LET div == num - 1
        delta == fsub(stop, start)
        step == fdiv(delta, div * One)
        y(i) == IF div > 0
                THEN IF step = 0
                     THEN fmul(fdiv(i * One, div * One), delta)
                     ELSE fmul(i * One, step)
                ELSE fmul(i * One, delta)
    IN  [k \in 1..num |->
            IF num > 1 /\ k = num THEN stop ELSE fadd(y(k - 1), start)]

\* a mutant of Circle: the diameter is used as the radius
CircleRadiusD(h, center, npoints, d, start, end) ==
    LET pts == NpLinspace(fmul(start, NpPi), fmul(end, NpPi), npoints)
        x == [i \in DOMAIN pts |-> fadd(center[1], fmul(d, MathCos(pts[i])))]
        y == [i \in DOMAIN pts |-> fadd(center[2], fmul(d, MathSin(pts[i])))]
        r == NewFrame(h, x, y)
    IN  [heap |-> r.heap, ref |-> r.ref, raised |-> "", pts |-> pts]

\* a mutant of Circle: the arc is laid from end to start
CircleBackwards(h, center, npoints, d, start, end) ==
    LET pts == NpLinspace(fmul(end, NpPi), fmul(start, NpPi), npoints)
        x == [i \in DOMAIN pts |->
                fadd(center[1], fmul(fdiv(d, Two), MathCos(pts[i])))]
        y == [i \in DOMAIN pts |->
                fadd(center[2], fmul(fdiv(d, Two), MathSin(pts[i])))]
        r == NewFrame(h, x, y)
    IN  [heap |-> r.heap, ref |-> r.ref, raised |-> "", pts |-> pts]

\* the body of circle(): pts are the angles of the points
CircleColumns(center, npoints, d, start, end) ==
    LET pts == NpLinspace(fmul(start, NpPi), fmul(end, NpPi), npoints)
    IN  [pts |-> pts,
         x |-> [i \in DOMAIN pts |->
                  fadd(center[1], fmul(fdiv(d, Two), MathCos(pts[i])))],
         y |-> [i \in DOMAIN pts |->
                  fadd(center[2], fmul(fdiv(d, Two), MathSin(pts[i])))]]

\* circle(): the angles are kept with the result
Circle(h, center, npoints, d, start, end) ==
    LET c == CircleColumns(center, npoints, d, start, end)
        r == NewFrame(h, c.x, c.y)
    IN  [heap |-> r.heap, ref |-> r.ref, raised |-> "", pts |-> c.pts]

Rectangle(h, x_min, x_max, y_min, y_max) ==
    Returned(NewFrame(h,
        <<x_min, x_max, x_max, x_min, x_min>>,
        <<y_min, y_min, y_max, y_max, y_min>>))

\* a mutant of Square: the y column is centred on center[0]
SquareCenterTypo(h, side_length, center) ==
    Returned(NewFrame(h,
        << fsub(center[1], fdiv(side_length, Two)),
           fadd(center[1], fdiv(side_length, Two)),
           fadd(center[1], fdiv(side_length, Two)),
           fsub(center[1], fdiv(side_length, Two)),
           fsub(center[1], fdiv(side_length, Two)) >>,
        << fsub(center[1], fdiv(side_length, Two)),
           fsub(center[1], fdiv(side_length, Two)),
           fadd(center[1], fdiv(side_length, Two)),
           fadd(center[1], fdiv(side_length, Two)),
           fsub(center[1], fdiv(side_length, Two)) >>))

\* center is a Python pair: center[0] is the model's center[1]
Square(h, side_length, center) ==
    Returned(NewFrame(h,
        << fsub(center[1], fdiv(side_length, Two)),
           fadd(center[1], fdiv(side_length, Two)),
           fadd(center[1], fdiv(side_length, Two)),
           fsub(center[1], fdiv(side_length, Two)),
           fsub(center[1], fdiv(side_length, Two)) >>,
        << fsub(center[2], fdiv(side_length, Two)),
           fsub(center[2], fdiv(side_length, Two)),
           fadd(center[2], fdiv(side_length, Two)),
           fadd(center[2], fdiv(side_length, Two)),
           fsub(center[2], fdiv(side_length, Two)) >>))

\* diamond() reads side_length and returns square_pts; neither is a
\* parameter, a local or a name of the module, so the lookup raises
\* NameError and no frame is returned.  (Were both bound, the frame would
\* be the one the body builds, which is square()'s.)
Diamond(h, height, width, center) ==
    LET bound == {"height", "width", "center", "diamond_pts"}
                    \cup CreateShapesGlobals
    IN  IF {"side_length", "square_pts"} \subseteq bound
        THEN Square(h, height, center)
        ELSE Raised(h, "NameError")

(***************************************************************************)
(* features: the generators whose angles come from an arcsine.  A feature  *)
(* (self) is the record of its attributes.                                 *)
(***************************************************************************)
\* the number of points of an arc of a feature
ArcPoints == 2

\* math.asin at the ratios the model reaches, correctly rounded
AsinTable ==
    (0 :> 0)
     @@ (Half :> 2144)
     @@ (4000 :> 5536)
     @@ (One :> NpPi \div 2)

\* a mutant of MathAsin: the argument is clamped to [-1, 1]
MathAsinClamped(x) ==
    [raised |-> "",
     value |-> IF x < 0 THEN -AsinTable[IF -x > One THEN One ELSE -x]
               ELSE AsinTable[IF x > One THEN One ELSE x]]

\* math.asin(x): ValueError (math domain error) outside [-1, 1]
MathAsin(x) ==
    IF Abs(x) > One
    THEN [raised |-> "ValueError"]
    ELSE [raised |-> "",
          value |-> IF x < 0 THEN -AsinTable[-x] ELSE AsinTable[x]]

\* math.asin(num / den): the division raises when den is zero
AsinOfRatio(num, den) ==
    IF den = 0 THEN [raised |-> "ZeroDivisionError"]
    ELSE MathAsin(fdiv(num, den))

\* BaseFeature.create_circle(center, start, end, r)
CreateCircle(center, start, end, r) ==
    CircleColumns(center, ArcPoints, fmul(Two, r), start, end)

\* pd.concat of the fragments of a path
PdConcat(frames) ==
    LET xs[k \in 0..Len(frames)] ==
            IF k = 0 THEN <<>> ELSE xs[k - 1] \o frames[k].x
        ys[k \in 0..Len(frames)] ==
            IF k = 0 THEN <<>> ELSE ys[k - 1] \o frames[k].y
    IN  [x |-> xs[Len(frames)], y |-> ys[Len(frames)]]

\* a Python assignment, name = value: the value is computed once and the
\* statements that follow read it by its name
Assign(value, Then(_)) == CHOOSE r \in {Then(name) : name \in {value}} : TRUE

\* pd.DataFrame({'x': xs, 'y': ys}) as a fragment of a path
Fragment(xs, ys) == [x |-> xs, y |-> ys]

\* OzoneDzoneFaceoffCircle._get_centered_feature
OzoneDzoneFaceoffCircle_get_centered_feature(h, self) ==
    LET R == self.feature_radius
        t == self.feature_thickness
        hw == self.hashmark_width
        ext_spacing == fdiv(self.hashmark_ext_spacing, Two)
        int_spacing == fsub(ext_spacing, t)
        a1 == AsinOfRatio(ext_spacing, R)
        a2 == AsinOfRatio(int_spacing, R)
        theta1 == fdiv(a1.value, NpPi)
        theta2 == fdiv(a2.value, NpPi)
        faceoff_circle_df == PdConcat(<<
            Fragment(<<0>>, <<R>>),
            CreateCircle(<<0, 0>>, Half, fadd(Half, theta2), R),
            Fragment(<<-int_spacing, -ext_spacing>>,
                     <<fadd(R, hw), fadd(R, hw)>>),
            CreateCircle(<<0, 0>>, fadd(Half, theta1),
                         fsub(One + Half, theta1), R),
            Fragment(<<-ext_spacing, -int_spacing>>,
                     <<fsub(-R, hw), fsub(-R, hw)>>),
            CreateCircle(<<0, 0>>, fsub(One + Half, theta2), One + Half, R),
            Fragment(<<0>>, <<fadd(-R, t)>>),
            CreateCircle(<<0, 0>>, One + Half, Half, fsub(R, t)),
            Fragment(<<0>>, <<R>>) >>)
    IN  IF a1.raised # "" THEN Raised(h, a1.raised)
        ELSE IF a2.raised # "" THEN Raised(h, a2.raised)
        ELSE Assign(faceoff_circle_df, LAMBDA half :
             Assign(NewFrame(h, half.x, half.y), LAMBDA f :
             Assign(BaseHockeyFeature_reflect(f.heap, f.ref, FALSE, TRUE),
                    LAMBDA g :
                 Returned(NewFrame(g.heap,
                     g.heap[f.ref].x \o g.heap[g.ref].x,
                     g.heap[f.ref].y \o g.heap[g.ref].y)))))

\* ThreePointLine._get_centered_feature
ThreePointLine_get_centered_feature(h, self) ==
    LET t == self.feature_thickness
        b == self.basket_to_baseline_dist
        start_y_outer == fdiv(self.feature_width, Two)
        radius_outer == self.feature_radius
        a1 == AsinOfRatio(start_y_outer, radius_outer)
        start_angle_outer == fdiv(a1.value, NpPi)
        end_angle_outer == -start_angle_outer
        start_y_inner == fsub(start_y_outer, t)
        radius_inner == fsub(self.feature_radius, t)
        a2 == AsinOfRatio(start_y_inner, radius_inner)
        start_angle_inner == fdiv(-a2.value, NpPi)
        end_angle_inner == -start_angle_inner
        three_point_line_df == PdConcat(<<
            Fragment(<<0>>, <<fdiv(self.feature_width, Two)>>),
            CreateCircle(<<b, 0>>, start_angle_outer, end_angle_outer,
                         radius_outer),
            Fragment(<<0, 0>>,
                     <<fdiv(-self.feature_width, Two),
                       fadd(-fdiv(self.feature_width, Two), t)>>),
            CreateCircle(<<b, 0>>, start_angle_inner, end_angle_inner,
                         radius_inner),
            Fragment(<<0, 0>>,
                     <<fsub(fdiv(self.feature_width, Two), t),
                       fdiv(self.feature_width, Two)>>) >>)
    IN  IF a1.raised # "" THEN Raised(h, a1.raised)
        ELSE IF a2.raised # "" THEN Raised(h, a2.raised)
        ELSE Assign(three_point_line_df, LAMBDA path :
                 Returned(NewFrame(h, path.x, path.y)))

\* GoalCreaseOutline._get_centered_feature
GoalCreaseOutline_get_centered_feature(h, self) ==
    LET t == self.feature_thickness
        w == self.goal_crease_width
        len == self.goal_crease_length
        nd == self.crease_notch_dist
        nw == self.crease_notch_width
        start_x == IF self.x_justify = "left" THEN 0
                   ELSE IF self.x_justify = "right" THEN t
                   ELSE fdiv(t, Two)
        a == AsinOfRatio(w, self.feature_radius)
        theta == fdiv(a.value, NpPi)
        far == fadd(start_x, len)
        notch == fadd(start_x, nd)
        notch_t == fadd(notch, t)
        goal_crease_outline_df == PdConcat(<<
            Fragment(<<start_x, far>>, <<w, w>>),
            CreateCircle(<<start_x, 0>>, theta, -theta, self.feature_radius),
            Fragment(<<far, start_x, start_x, notch, notch, notch_t, notch_t>>,
                     <<-w, -w, fadd(-w, t), fadd(-w, t),
                       fadd(fadd(-w, t), nw), fadd(fadd(-w, t), nw),
                       fadd(-w, t)>>),
            CreateCircle(<<start_x, 0>>, -theta, theta,
                         fsub(self.feature_radius, t)),
            Fragment(<<notch_t, notch_t, notch, notch, start_x, start_x>>,
                     <<fsub(w, t), fsub(fsub(w, t), nw), fsub(fsub(w, t), nw),
                       fsub(w, t), fsub(w, t), w>>) >>)
    IN  IF a.raised # "" THEN Raised(h, a.raised)
        ELSE Assign(goal_crease_outline_df, LAMBDA path :
             Assign(NewFrame(h, path.x, path.y), LAMBDA f :
                 Returned([heap |-> SetX(f.heap, f.ref,
                               SAddK(f.heap[f.ref].x, self.goal_line_x)),
                           ref |-> f.ref])))

\* GoalLine._get_centered_feature: the rectangle is centred on x = 0, the
\* two arcs are laid from the centres of the corners
GoalLine_get_centered_feature(h, self) ==
    LET half_length == fdiv(self.rink_length, Two)
        half_width == fdiv(self.rink_width, Two)
        t == self.feature_thickness
        corner_arc_center_x == fsub(half_length, self.feature_radius)
        corner_arc_center_y == fsub(half_width, self.feature_radius)
        min_x == IF self.x_justify = "right"
                 THEN fsub(self.goal_line_anchor, t)
                 ELSE IF self.x_justify = "left" THEN self.goal_line_anchor
                 ELSE fsub(self.goal_line_anchor, fdiv(t, Two))
        anchor_to_arc_center ==
            fsub(self.goal_line_anchor, corner_arc_center_x)
        start_x == IF self.x_justify = "right"
                   THEN fsub(anchor_to_arc_center, t)
                   ELSE IF self.x_justify = "left" THEN anchor_to_arc_center
                   ELSE fsub(anchor_to_arc_center, fdiv(t, Two))
        end_x == IF self.x_justify = "right" THEN anchor_to_arc_center
                 ELSE IF self.x_justify = "left"
                 THEN fadd(anchor_to_arc_center, t)
                 ELSE fadd(anchor_to_arc_center, fdiv(t, Two))
        a1 == AsinOfRatio(start_x, self.feature_radius)
        a2 == AsinOfRatio(end_x, self.feature_radius)
        theta_start == fdiv(a1.value, NpPi)
        theta_end == fdiv(a2.value, NpPi)
    IN  IF min_x <= corner_arc_center_x
        THEN Returned(NewFrame(h,
                 <<fdiv(-t, Two), fdiv(t, Two), fdiv(t, Two),
                   fdiv(-t, Two), fdiv(-t, Two)>>,
                 <<-half_width, -half_width, half_width,
                   half_width, -half_width>>))
        ELSE IF a1.raised # "" THEN Raised(h, a1.raised)
        ELSE IF a2.raised # "" THEN Raised(h, a2.raised)
        ELSE Assign(PdConcat(<<
                 CreateCircle(<<corner_arc_center_x, corner_arc_center_y>>,
                              fsub(Half, theta_start), fsub(Half, theta_end),
                              self.feature_radius),
                 CreateCircle(<<corner_arc_center_x, -corner_arc_center_y>>,
                              fadd(-Half, theta_end), fadd(-Half, theta_start),
                              self.feature_radius) >>),
                 LAMBDA goal_line_df :
                     Returned(NewFrame(h, goal_line_df.x, goal_line_df.y)))

\* CenterFaceoffCircle._get_centered_feature: the second connecting point
\* is at y = -feature_radius - feature_thickness
CenterFaceoffCircle_get_centered_feature(h, self) ==
    LET R == self.feature_radius
        t == self.feature_thickness
    IN  Assign(PdConcat(<<
            CreateCircle(<<0, 0>>, Half, One + Half, R),
            Fragment(<<0, 0>>, <<-R, fsub(-R, t)>>),
            CreateCircle(<<0, 0>>, One + Half, Half, fsub(R, t)) >>),
            LAMBDA faceoff_circle_df :
                Returned(NewFrame(h, faceoff_circle_df.x,
                                  faceoff_circle_df.y)))

\* NonCenterFaceoffSpot._get_centered_feature: the left half of the ring,
\* then pd.concat of it and of its reflection over the y axis
NonCenterFaceoffSpot_get_centered_feature(h, self) ==
    LET R == self.feature_radius
        t == self.feature_thickness
    IN  Assign(PdConcat(<<
            CreateCircle(<<0, 0>>, Half, One + Half, R),
            Fragment(<<0>>, <<fadd(-R, t)>>),
            CreateCircle(<<0, 0>>, One + Half, Half, fsub(R, t)),
            Fragment(<<0, 0>>, <<fsub(R, t), R>>) >>), LAMBDA half :
        Assign(NewFrame(h, half.x, half.y), LAMBDA f :
        Assign(BaseHockeyFeature_reflect(f.heap, f.ref, FALSE, TRUE),
               LAMBDA g :
            Returned(NewFrame(g.heap,
                g.heap[f.ref].x \o g.heap[g.ref].x,
                g.heap[f.ref].y \o g.heap[g.ref].y)))))

\* RefereeCrease._get_centered_feature
RefereeCrease_get_centered_feature(h, self) ==
    LET R == self.feature_radius
        t == self.feature_thickness
    IN  Assign(PdConcat(<<
            Fragment(<<R>>, <<0>>),
            CreateCircle(<<0, 0>>, 0, One, R),
            Fragment(<<-R, fadd(-R, t)>>, <<0, 0>>),
            CreateCircle(<<0, 0>>, One, 0, fsub(R, t)),
            Fragment(<<R>>, <<0>>) >>), LAMBDA referee_crease_df :
                Returned(NewFrame(h, referee_crease_df.x,
                                  referee_crease_df.y)))

\* basketball_features.py, CenterCircleOutline._get_centered_feature
CenterCircleOutline_get_centered_feature(h, self) ==
    LET R == self.feature_radius
        t == self.feature_thickness
    IN  Assign(PdConcat(<<
            Fragment(<<0>>, <<R>>),
            CreateCircle(<<0, 0>>, Half, -Half, R),
            Fragment(<<0, 0>>, <<-R, fadd(-R, t)>>),
            CreateCircle(<<0, 0>>, -Half, Half, fsub(R, t)),
            Fragment(<<0>>, <<R>>) >>), LAMBDA center_circle_df :
                Returned(NewFrame(h, center_circle_df.x,
                                  center_circle_df.y)))

(***************************************************************************)
(* The caller: it first creates a frame (by hand, as the tests do, or with *)
(* a generator) and then applies transforms to the frame it created or to  *)
(* the latest result.  An exception ends the run.                          *)
(***************************************************************************)
Points == {<<0, One>>, <<Tiny, One>>}

PointSeqs == UNION {[1..n -> Points] : n \in 0..MaxLen}

Column(pts, k) == [i \in DOMAIN pts |-> pts[i][k]]

Centers == {<<0, 0>>, <<One, One>>, <<One, -Half>>}

Sides == {One, One + Half}

Boxes == {<<-Half, Half, -Half, Half>>, <<0, One, -Half, Two>>}

Flags == BOOLEAN

\* 'ccw', 'Counter', 'COUNTERCLOCKWISE', 'CCW' and 'cw'
DirCcw == <<"c", "c", "w">>
DirCounter == <<"C", "o", "u", "n", "t", "e", "r">>
DirCounterclockwise ==
    <<"C", "O", "U", "N", "T", "E", "R",
      "C", "L", "O", "C", "K", "W", "I", "S", "E">>
DirCCW == <<"C", "C", "W">>
DirCw == <<"c", "w">>

\* the arguments of rotate(): a quarter turn under every spelling, an
\* eighth of a turn both ways and by a negative angle
Rotations ==
    ({DirCcw, DirCounter, DirCounterclockwise, DirCw} \X {Half})
        \cup ({DirCCW, DirCw} \X {Quarter})
        \cup {<<DirCcw, -Quarter>>}

Offsets == {<<One, -Half>>, <<-One, Half>>}

\* 1, 2 and the float nearest to 0.1
Factors == {One, Two, Round(One, 10)}

NoFrame == [x |-> <<>>, y |-> <<>>]

Last(s) == s[Len(s)]

\* the call as logged: its input as it was when the call was made
Call(fn, args, df, r) ==
    [fn |-> fn, args |-> args, df |-> df,
     before |-> IF df = 0 THEN NoFrame ELSE heap[df],
     out |-> r.ref, raised |-> r.raised]

\* the references the caller passes on: its first frame, the latest result
Held == {calls[1].out, Last(calls).out}

CanCreate == calls = <<>>

CanTransform ==
    /\ calls # <<>>
    /\ Last(calls).raised = ""
    /\ Len(calls) <= MaxCalls

Init ==
    /\ heap = <<>>
    /\ calls = <<>>

CallDataFrame ==
    /\ CanCreate
    /\ \E pts \in PointSeqs :
        LET r == Returned(NewFrame(heap, Column(pts, 1), Column(pts, 2)))
        IN  /\ heap' = r.heap
            /\ calls' = Append(calls, Call("DataFrame", [points |-> pts], 0, r))

CallRectangle ==
    /\ CanCreate
    /\ \E b \in Boxes :
        LET r == Rectangle(heap, b[1], b[2], b[3], b[4])
        IN  /\ heap' = r.heap
            /\ calls' = Append(calls, Call("rectangle",
                   [x_min |-> b[1], x_max |-> b[2],
                    y_min |-> b[3], y_max |-> b[4]], 0, r))

CallSquare ==
    /\ CanCreate
    /\ \E s \in Sides, c \in Centers :
        LET r == Square(heap, s, c)
        IN  /\ heap' = r.heap
            /\ calls' = Append(calls, Call("square",
                   [side_length |-> s, center |-> c], 0, r))

CallDiamond ==
    /\ CanCreate
    /\ \E hh \in Sides, w \in Sides, c \in Centers :
        LET r == Diamond(heap, hh, w, c)
        IN  /\ heap' = r.heap
            /\ calls' = Append(calls, Call("diamond",
                   [height |-> hh, width |-> w, center |-> c], 0, r))

CallReflect ==
    /\ CanTransform
    /\ \E df \in Held, over_x \in Flags, over_y \in Flags :
        LET r == Returned(Reflect(heap, df, over_x, over_y))
        IN  /\ heap' = r.heap
            /\ calls' = Append(calls, Call("reflect",
                   [over_x |-> over_x, over_y |-> over_y], df, r))

\* a feature reflects the frame it has just built
CallFeatureReflect ==
    /\ CanTransform
    /\ \E over_x \in Flags, over_y \in Flags :
        LET df == calls[1].out
            r == Returned(BaseHockeyFeature_reflect(heap, df, over_x, over_y))
        IN  /\ heap' = r.heap
            /\ calls' = Append(calls, Call("_reflect",
                   [over_x |-> over_x, over_y |-> over_y], df, r))

CallRotate ==
    /\ CanTransform
    /\ \E df \in Held, a \in Rotations :
        LET r == Returned(Rotate(heap, df, a[1], a[2]))
        IN  /\ heap' = r.heap
            /\ calls' = Append(calls, Call("rotate",
                   [rotation_dir |-> a[1], angle |-> a[2]], df, r))

CallTranslate ==
    /\ CanTransform
    /\ \E df \in Held, o \in Offsets :
        LET r == Returned(Translate(heap, df, o[1], o[2]))
        IN  /\ heap' = r.heap
            /\ calls' = Append(calls, Call("translate",
                   [translate_x |-> o[1], translate_y |-> o[2]], df, r))

CallScale ==
    /\ CanTransform
    /\ \E df \in Held, k \in Factors :
        LET r == Returned(Scale(heap, df, k))
        IN  /\ heap' = r.heap
            /\ calls' = Append(calls, Call("scale",
                   [scale_factor |-> k], df, r))

Next ==
    \/ CallDataFrame
    \/ CallRectangle
    \/ CallSquare
    \/ CallDiamond
    \/ CallReflect
    \/ CallFeatureReflect
    \/ CallRotate
    \/ CallTranslate
    \/ CallScale

Spec == Init /\ [][Next]_vars

(***************************************************************************)
(* The caller of circle(): one call, with any of the arguments below.      *)
(***************************************************************************)
\* start and end, in half turns: 0, a quarter turn, a half turn, a full turn
Turns == {0, Half, One, Two}

Diameters == {One, Two}

NPoints == 0..MaxPoints

CallCircle ==
    /\ CanCreate
    /\ \E c \in Centers, n \in NPoints, d \in Diameters,
          start \in Turns, end \in Turns :
        LET r == Circle(heap, c, n, d, start, end)
        IN  /\ heap' = r.heap
            /\ calls' = Append(calls,
                   [fn |-> "circle",
                    args |-> [center |-> c, npoints |-> n, d |-> d,
                              start |-> start, end |-> end],
                    df |-> 0, before |-> NoFrame,
                    out |-> r.ref, raised |-> r.raised, pts |-> r.pts])

NextCircle == CallCircle

SpecCircle == Init /\ [][NextCircle]_vars

(***************************************************************************)
(* The caller of the feature generators: one feature, with attributes      *)
(* that put the arcsine argument inside, on the edge of and outside        *)
(* [-1, 1].                                                                *)
(***************************************************************************)
FaceoffCircles ==
    [feature_radius : {0, One, Two},
     feature_thickness : {0, One, 4 * One},
     hashmark_width : {Half, Two},
     hashmark_ext_spacing : {0, Two, 4 * One, 8 * One}]

ThreePointLines ==
    [feature_radius : {One, Two},
     feature_thickness : {0, One},
     feature_width : {0, Two, 4 * One, 8 * One},
     basket_to_baseline_dist : {-Half}]

GoalCreaseOutlines ==
    [feature_radius : {0, One, Two},
     feature_thickness : {0, Quarter},
     goal_crease_width : {One, Two, 4 * One},
     goal_crease_length : {One},
     crease_notch_dist : {One},
     crease_notch_width : {Quarter},
     x_justify : {"left", "right", "center"},
     goal_line_x : {-Two}]

CallFaceoffCircle ==
    /\ CanCreate
    /\ \E self \in FaceoffCircles :
        LET r == OzoneDzoneFaceoffCircle_get_centered_feature(heap, self)
        IN  /\ heap' = r.heap
            /\ calls' = Append(calls,
                   Call("OzoneDzoneFaceoffCircle._get_centered_feature",
                        self, 0, r))

CallThreePointLine ==
    /\ CanCreate
    /\ \E self \in ThreePointLines :
        LET r == ThreePointLine_get_centered_feature(heap, self)
        IN  /\ heap' = r.heap
            /\ calls' = Append(calls,
                   Call("ThreePointLine._get_centered_feature", self, 0, r))

CallGoalCreaseOutline ==
    /\ CanCreate
    /\ \E self \in GoalCreaseOutlines :
        LET r == GoalCreaseOutline_get_centered_feature(heap, self)
        IN  /\ heap' = r.heap
            /\ calls' = Append(calls,
                   Call("GoalCreaseOutline._get_centered_feature", self, 0, r))

NextFeature ==
    \/ CallFaceoffCircle
    \/ CallThreePointLine
    \/ CallGoalCreaseOutline

SpecFeature == Init /\ [][NextFeature]_vars

(***************************************************************************)
(* The caller of the markings: the rings around one centre, the faceoff    *)
(* spot and circle built from a half and its reflection, and the goal      *)
(* line as HockeyRink.__init__ configures it.                              *)
(***************************************************************************)
Rings ==
    [feature_radius : {One, Two, 3 * One, 4 * One, 6 * One},
     feature_thickness : {0, Quarter, Half, One, Two, 4 * One}]

\* hockey.py, goal_line_params
GoalLineParams(rink_length, rink_width, corner_radius, minor_line_thickness, goal_line_dist) ==
    [class |-> "GoalLine", x_anchor |-> 0, y_anchor |-> 0,
     x_justify |-> "center", y_justify |-> "center",
     goal_line_anchor |-> fsub(fdiv(rink_length, Two), goal_line_dist),
     reflect_x |-> TRUE, reflect_y |-> FALSE,
     rink_length |-> rink_length, rink_width |-> rink_width,
     feature_radius |-> corner_radius,
     feature_thickness |-> minor_line_thickness,
     visible |-> TRUE]

\* the distances from the end boards to the goal line: on the corner's
\* arc, at the arc's first point and inside the straight part of the boards
GoalLineDists == {Half, One + Half, 4 * One, 8 * One}

CallCenterFaceoffCircle ==
    /\ CanCreate
    /\ \E self \in Rings :
        LET r == CenterFaceoffCircle_get_centered_feature(heap, self)
        IN  /\ heap' = r.heap
            /\ calls' = Append(calls,
                   Call("CenterFaceoffCircle._get_centered_feature",
                        self, 0, r))

CallNonCenterFaceoffSpot ==
    /\ CanCreate
    /\ \E self \in Rings :
        LET r == NonCenterFaceoffSpot_get_centered_feature(heap, self)
        IN  /\ heap' = r.heap
            /\ calls' = Append(calls,
                   Call("NonCenterFaceoffSpot._get_centered_feature",
                        self, 0, r))

CallRefereeCrease ==
    /\ CanCreate
    /\ \E self \in Rings :
        LET r == RefereeCrease_get_centered_feature(heap, self)
        IN  /\ heap' = r.heap
            /\ calls' = Append(calls,
                   Call("RefereeCrease._get_centered_feature", self, 0, r))

CallCenterCircleOutline ==
    /\ CanCreate
    /\ \E self \in Rings :
        LET r == CenterCircleOutline_get_centered_feature(heap, self)
        IN  /\ heap' = r.heap
            /\ calls' = Append(calls,
                   Call("CenterCircleOutline._get_centered_feature",
                        self, 0, r))

CallGoalLine ==
    /\ CanCreate
    /\ \E rink_width \in {8 * One, 6 * One}, goal_line_dist \in GoalLineDists :
        LET self == GoalLineParams(16 * One, rink_width, Two, One,
                                   goal_line_dist)
            r == GoalLine_get_centered_feature(heap, self)
        IN  /\ heap' = r.heap
            /\ calls' = Append(calls,
                   Call("GoalLine._get_centered_feature", self, 0, r))

NextMarking ==
    \/ CallCenterFaceoffCircle
    \/ CallNonCenterFaceoffSpot
    \/ CallRefereeCrease
    \/ CallCenterCircleOutline
    \/ CallFaceoffCircle
    \/ CallGoalLine

SpecMarking == Init /\ [][NextMarking]_vars

(***************************************************************************)
(* Python values that may be None, a number, a tuple or a list; dicts      *)
(***************************************************************************)
PyNone == [type |-> "NoneType"]

PyFloat(v) == [type |-> "float", value |-> v]

PyTuple(a, b) == [type |-> "tuple", items |-> <<a, b>>]

PyList(a, b) == [type |-> "list", items |-> <<a, b>>]

PyDict(items) == [type |-> "dict", items |-> items]

\* bool(v), as "if v" and "not v" take it
Truthy(v) ==
    CASE v.type = "NoneType" -> FALSE
      [] v.type = "float" -> v.value # 0
      [] v.type \in {"tuple", "list"} -> v.items # <<>>

\* {**a, **b}: a new dict, the keys of b win
DictMerge(a, b) == b @@ a

\* d.get(key, default)
DictGet(d, key, default) == IF key \in DOMAIN d THEN d[key] ELSE default

\* s.replace(char, ''): every occurrence of the character is dropped
StrRemove(s, char) == SelectSeq(s, LAMBDA c : c # char)

Min(a, b) == IF a <= b THEN a ELSE b

\* series.min() and series.max()
SeriesMin(s) == CHOOSE v \in {s[i] : i \in DOMAIN s} : \A i \in DOMAIN s : v <= s[i]
SeriesMax(s) == CHOOSE v \in {s[i] : i \in DOMAIN s} : \A i \in DOMAIN s : v >= s[i]

\* the display ranges that the docstring of HockeyRink.draw() lists and the
\* keys of the dicts of _get_plot_range_limits(), as sequences of characters
Str ==
    ("full" :>
          <<"f", "u", "l", "l">>)
     @@ ("offense" :>
          <<"o", "f", "f", "e", "n", "s", "e">>)
     @@ ("offence" :>
          <<"o", "f", "f", "e", "n", "c", "e">>)
     @@ ("defense" :>
          <<"d", "e", "f", "e", "n", "s", "e">>)
     @@ ("defence" :>
          <<"d", "e", "f", "e", "n", "c", "e">>)
     @@ ("nzone" :>
          <<"n", "z", "o", "n", "e">>)
     @@ ("neutral" :>
          <<"n", "e", "u", "t", "r", "a", "l">>)
     @@ ("neutral_zone" :>
          <<"n", "e", "u", "t", "r", "a", "l", "_", "z", "o", "n", "e">>)
     @@ ("neutral zone" :>
          <<"n", "e", "u", "t", "r", "a", "l", " ", "z", "o", "n", "e">>)
     @@ ("ozone" :>
          <<"o", "z", "o", "n", "e">>)
     @@ ("offensive_zone" :>
          <<"o", "f", "f", "e", "n", "s", "i", "v", "e", "_", "z", "o", "n", "e">>)
     @@ ("offensive zone" :>
          <<"o", "f", "f", "e", "n", "s", "i", "v", "e", " ", "z", "o", "n", "e">>)
     @@ ("attacking_zone" :>
          <<"a", "t", "t", "a", "c", "k", "i", "n", "g", "_", "z", "o", "n", "e">>)
     @@ ("attacking zone" :>
          <<"a", "t", "t", "a", "c", "k", "i", "n", "g", " ", "z", "o", "n", "e">>)
     @@ ("dzone" :>
          <<"d", "z", "o", "n", "e">>)
     @@ ("defensive_zone" :>
          <<"d", "e", "f", "e", "n", "s", "i", "v", "e", "_", "z", "o", "n", "e">>)
     @@ ("defensive zone" :>
          <<"d", "e", "f", "e", "n", "s", "i", "v", "e", " ", "z", "o", "n", "e">>)
     @@ ("defending_zone" :>
          <<"d", "e", "f", "e", "n", "d", "i", "n", "g", "_", "z", "o", "n", "e">>)
     @@ ("defending zone" :>
          <<"d", "e", "f", "e", "n", "d", "i", "n", "g", " ", "z", "o", "n", "e">>)

(***************************************************************************)
(* surfaces/hockey.py.  A surface is an object on the heap; a feature is   *)
(* the dict of the parameters it was initialised with (its placement, its  *)
(* geometry and its visibility; colours and draw order are left out).      *)
(***************************************************************************)
\* BaseSurface._initialize_feature(params): the feature is built from the
\* parameters and appended to the features of the surface
InitializeFeature(self, params) ==
    [self EXCEPT !._features = Append(@, params)]

\* a mutant of PopConstraint: the constraint stays in the list
PopConstraintKept(self) ==
    [_surface_constraint |-> Last(self._features)] @@ self

\* self._surface_constraint = self._features.pop(-1)
PopConstraint(self) ==
    [_surface_constraint |-> Last(self._features)]
        @@ [self EXCEPT !._features = SubSeq(@, 1, Len(@) - 1)]

\* a mutant of MergeOverride: the parameters are merged into the override
\* dict itself
MergeOverrideInPlace(h, params, override) ==
    [heap |-> [h EXCEPT ![override].items = DictMerge(params, @)],
     params |-> DictMerge(params, h[override].items)]

\* params = {**params, **override}: a new dict, the override is only read
MergeOverride(h, params, override) ==
    [heap |-> h, params |-> DictMerge(params, h[override].items)]

\* Affine2D().rotate_deg(rotation)
RotateDeg(rotation) == [type |-> "Affine2D", rotate_deg |-> rotation]

\* HockeyRink.__init__: the attributes, the boards, the constraint and
\* three of the features (the neutral zone, the center line, the zone
\* line), each merged with its override dict
HockeyRink_init(h, a) ==
    LET zone_line_dist ==
            fadd(fdiv(a.nzone_length, Two), fdiv(a.major_line_thickness, Two))
        self0 ==
            [type |-> "HockeyRink",
             _rotation |-> RotateDeg(a.rotation),
             x_trans |-> a.x_trans, y_trans |-> a.y_trans,
             x_shift |-> a.x_trans, y_shift |-> a.y_trans,
             rink_length |-> a.rink_length, rink_width |-> a.rink_width,
             nzone_length |-> a.nzone_length,
             corner_radius |-> a.corner_radius,
             board_thickness |-> a.board_thickness,
             major_line_thickness |-> a.major_line_thickness,
             zone_line_dist |-> zone_line_dist,
             _features |-> <<>>,
             _feature_xlim |-> PyNone, _feature_ylim |-> PyNone]
        board_params ==
            [class |-> "Boards", x_anchor |-> 0, y_anchor |-> 0,
             reflect_x |-> TRUE, reflect_y |-> FALSE,
             is_constrained |-> FALSE,
             rink_length |-> self0.rink_length,
             rink_width |-> self0.rink_width,
             feature_radius |-> self0.corner_radius,
             feature_thickness |-> self0.board_thickness]
        boards_constraint_params ==
            [class |-> "BoardsConstraint", x_anchor |-> 0, y_anchor |-> 0,
             reflect_x |-> FALSE, reflect_y |-> FALSE,
             rink_length |-> self0.rink_length,
             rink_width |-> self0.rink_width,
             feature_radius |-> self0.corner_radius,
             feature_thickness |-> self0.board_thickness,
             visible |-> FALSE]
        nzone_params ==
            [class |-> "NeutralZone", x_anchor |-> 0, y_anchor |-> 0,
             reflect_x |-> FALSE, reflect_y |-> FALSE,
             rink_length |-> self0.rink_length,
             rink_width |-> self0.rink_width,
             feature_thickness |-> self0.nzone_length,
             visible |-> TRUE]
        center_line_params ==
            [class |-> "CenterLine", x_anchor |-> 0, y_anchor |-> 0,
             reflect_x |-> TRUE, reflect_y |-> TRUE,
             rink_length |-> self0.rink_length,
             rink_width |-> self0.rink_width,
             feature_thickness |-> self0.major_line_thickness]
        zone_line_params ==
            [class |-> "ZoneLine", x_anchor |-> zone_line_dist, y_anchor |-> 0,
             reflect_x |-> TRUE, reflect_y |-> FALSE,
             rink_length |-> self0.rink_length,
             rink_width |-> self0.rink_width,
             feature_thickness |-> self0.major_line_thickness,
             visible |-> TRUE]
    IN  Assign(PopConstraint(InitializeFeature(
                   InitializeFeature(self0, board_params),
                   boards_constraint_params)), LAMBDA self1 :
        Assign(MergeOverride(h, nzone_params, a.nzone), LAMBDA m1 :
        Assign(MergeOverride(m1.heap, center_line_params, a.center_line),
               LAMBDA m2 :
        Assign(MergeOverride(m2.heap, zone_line_params, a.zone_line),
               LAMBDA m3 :
            [heap |-> Append(m3.heap,
                        InitializeFeature(InitializeFeature(InitializeFeature(
                            self1, m1.params), m2.params), m3.params)),
             ref |-> Len(m3.heap) + 1]))))

\* NeutralZone, CenterLine and ZoneLine._get_centered_feature: the
\* rectangle across the rink, as thick as the feature
GetCenteredFeature(feature) ==
    LET x_min == fdiv(-feature.feature_thickness, Two)
        x_max == fdiv(feature.feature_thickness, Two)
        y_min == fdiv(-feature.rink_width, Two)
        y_max == fdiv(feature.rink_width, Two)
    IN  [x |-> <<x_min, x_max, x_max, x_min, x_min>>,
         y |-> <<y_min, y_min, y_max, y_max, y_min>>]

\* BaseFeature._translate_feature: the centered feature moved to its anchor
TranslateFeature(feature) ==
    Assign(GetCenteredFeature(feature), LAMBDA feature_df :
        [x |-> SAddK(feature_df.x, feature.x_anchor),
         y |-> SAddK(feature_df.y, feature.y_anchor)])

\* the body of the loop of draw() for one feature: the extents after it.
\* The new upper limit is max(self._feature_xlim[0], ...): it is taken
\* against the lower limit ([0] is the model's items[1])
FeatureLimits(lims, feature, excluded) ==
    LET visible ==
            IF "visible" \in DOMAIN feature THEN feature.visible ELSE TRUE
        feature_df == TranslateFeature(feature)
        extend(lim, s) ==
            IF lim = PyNone THEN PyList(SeriesMin(s), SeriesMax(s))
            ELSE PyList(Min(lim.items[1], SeriesMin(s)),
                        Max(lim.items[1], SeriesMax(s)))
    IN  IF visible /\ feature.class # excluded
        THEN [x |-> extend(lims.x, feature_df.x),
              y |-> extend(lims.y, feature_df.y)]
        ELSE lims

\* for feature in self._features: ..., from feature k on
RECURSIVE DrawLoop(_, _, _, _)
DrawLoop(features, k, lims, excluded) ==
    IF k > Len(features) THEN lims
    ELSE Assign(FeatureLimits(lims, features[k], excluded), LAMBDA next :
             DrawLoop(features, k + 1, next, excluded))

\* the dict of display ranges that _get_plot_range_limits() builds for x
XLims(half_rink_length, half_nzone_length) ==
    LET full == <<-half_rink_length, half_rink_length>>
        offense == <<0, half_rink_length>>
        defense == <<-half_rink_length, 0>>
        nzone == <<-half_nzone_length, half_nzone_length>>
        ozone == <<fsub(half_nzone_length, One), half_rink_length>>
        dzone == <<-half_rink_length, fadd(-half_nzone_length, One)>>
    IN  [key \in {Str[name] : name \in DOMAIN Str} |->
            CASE key = Str["full"] -> full
              [] key \in {Str["offense"], Str["offence"]} -> offense
              [] key \in {Str["defense"], Str["defence"]} -> defense
              [] key \in {Str["nzone"], Str["neutral"], Str["neutral_zone"],
                          Str["neutral zone"]} -> nzone
              [] key \in {Str["ozone"], Str["offensive_zone"],
                          Str["offensive zone"], Str["attacking_zone"],
                          Str["attacking zone"]} -> ozone
              [] key \in {Str["dzone"], Str["defensive_zone"],
                          Str["defensive zone"], Str["defending_zone"],
                          Str["defending zone"]} -> dzone]

\* the dict that it builds for y: every display range shows the full width
YLims(half_rink_width) ==
    [key \in {Str[name] : name \in DOMAIN Str} |->
        <<-half_rink_width, half_rink_width>>]

\* "if not xlim" takes the other branch: the limit counts as given
LimitGiven(lim) == Truthy(lim)

\* the branch of _get_plot_range_limits() for a limit that was given: a
\* pair is shifted; of a single number lim[0] raises TypeError, and the
\* number becomes the lower limit
ShiftLimit(lim, shift, half) ==
    IF lim.type = "tuple"
    THEN <<fsub(lim.items[1], shift), fsub(lim.items[2], shift)>>
    ELSE LET shifted == fsub(lim.value, shift)
         IN  <<IF shifted >= half THEN -half ELSE shifted, half>>

\* "smaller coordinate should always go first", then the limits are kept
\* within the rink
OrderAndConstrain(lim, half) ==
    LET ordered == IF lim[1] > lim[2] THEN <<lim[2], lim[1]>> ELSE lim
    IN  <<Max(ordered[1], -half), Min(ordered[2], half)>>

\* HockeyRink._get_plot_range_limits(display_range, xlim, ylim)
HockeyRink_get_plot_range_limits(self, display_range, xlim, ylim) ==
    LET half_rink_length ==
            fadd(fadd(fdiv(self.rink_length, Two), self.board_thickness), One)
        half_rink_width ==
            fadd(fadd(fdiv(self.rink_width, Two), self.board_thickness), One)
        half_nzone_length ==
            fadd(fadd(fdiv(self.nzone_length, Two), self.major_line_thickness),
                 One)
        key == StrRemove(Lower(display_range), " ")
        x == IF ~LimitGiven(xlim)
             THEN DictGet(XLims(half_rink_length, half_nzone_length), key,
                          <<-half_rink_length, half_rink_length>>)
             ELSE ShiftLimit(xlim, self.x_shift, half_rink_length)
        y == IF ~LimitGiven(ylim)
             THEN DictGet(YLims(half_rink_width), key,
                          <<-half_rink_length, half_rink_length>>)
             ELSE ShiftLimit(ylim, self.y_shift, half_rink_width)
    IN  [xlim |-> OrderAndConstrain(x, half_rink_length),
         ylim |-> OrderAndConstrain(y, half_rink_width)]

\* a mutant of HockeyRink_draw: the features are registered again
HockeyRink_drawRegisters(h, ref, display_range, xlim, ylim, rotation) ==
    LET self == h[ref]
        lims == DrawLoop(self._features, 1,
                         [x |-> self._feature_xlim, y |-> self._feature_ylim],
                         "Boards")
    IN  [heap |-> [h EXCEPT ![ref]._feature_xlim = lims.x,
                            ![ref]._feature_ylim = lims.y,
                            ![ref]._rotation =
                                IF Truthy(rotation)
                                THEN RotateDeg(rotation.value) ELSE @,
                            ![ref]._features = @ \o @],
         drawn |-> self._features,
         limits |-> HockeyRink_get_plot_range_limits(self, display_range,
                                                     xlim, ylim)]

\* HockeyRink.draw(): the rotation, when one is given, replaces the one of
\* the constructor; every feature is drawn and the extents follow the
\* visible ones that are not the boards; then the display range is set
HockeyRink_draw(h, ref, display_range, xlim, ylim, rotation) ==
    LET self == h[ref]
        lims == DrawLoop(self._features, 1,
                         [x |-> self._feature_xlim, y |-> self._feature_ylim],
                         "Boards")
        _rotation ==
            IF Truthy(rotation) THEN RotateDeg(rotation.value)
            ELSE self._rotation
    IN  [heap |-> [h EXCEPT ![ref]._feature_xlim = lims.x,
                            ![ref]._feature_ylim = lims.y,
                            ![ref]._rotation = _rotation],
         drawn |-> self._features,
         limits |-> HockeyRink_get_plot_range_limits(self, display_range,
                                                     xlim, ylim)]

(***************************************************************************)
(* The caller of the surfaces.  The heap starts with the dicts that the    *)
(* definition of HockeyRink.__init__ creates once as the defaults of       *)
(* nzone, center_line and zone_line; the caller may create a dict of its   *)
(* own, build rinks, draw them and ask them for plot limits.               *)
(***************************************************************************)
\* the number of calls the caller of the surfaces makes
MaxSteps == 4

NzoneDefault == 1
CenterLineDefault == 2
ZoneLineDefault == 3

InitSurface ==
    /\ heap = <<PyDict(<<>>), PyDict(<<>>), PyDict(<<>>)>>
    /\ calls = <<>>

\* the rink of the model: a sixteenth of the NHL lengths, a power of two
\* so that the halves are representable
RinkArgs ==
    [rink_length |-> 16 * One, rink_width |-> 8 * One,
     nzone_length |-> 4 * One, corner_radius |-> Two,
     board_thickness |-> Quarter, major_line_thickness |-> One]

\* the overrides a caller passes for a feature
Overrides == {[visible |-> FALSE], [x_anchor |-> -4 * One]}

Dicts == {r \in DOMAIN heap : heap[r].type = "dict"}
Surfaces == {r \in DOMAIN heap : heap[r].type = "HockeyRink"}
UserDicts == Dicts \ {NzoneDefault, CenterLineDefault, ZoneLineDefault}

\* the dicts the caller passes for nzone, center_line and zone_line: the
\* defaults, or a dict of its own for one of them
OverrideArgs ==
    LET defaults == [nzone |-> NzoneDefault, center_line |-> CenterLineDefault,
                     zone_line |-> ZoneLineDefault]
    IN  {defaults}
            \cup {[defaults EXCEPT !.nzone = d] : d \in UserDicts}
            \cup {[defaults EXCEPT !.center_line = d] : d \in UserDicts}
            \cup {[defaults EXCEPT !.zone_line = d] : d \in UserDicts}

Degrees == {PyNone, PyFloat(0), PyFloat(90 * One)}

CanStep == Len(calls) < MaxSteps

\* d = {...}
CallDict ==
    /\ CanStep
    /\ UserDicts = {}
    /\ \E items \in Overrides :
        /\ heap' = Append(heap, PyDict(items))
        /\ calls' = Append(calls, [fn |-> "dict", args |-> items,
                                   out |-> Len(heap) + 1])

\* HockeyRink(nzone = ..., center_line = ..., zone_line = ...)
CallHockeyRink ==
    /\ CanStep
    /\ Cardinality(Surfaces) < MaxSteps \div 2
    /\ \E overrides \in OverrideArgs :
        LET args == [rotation |-> 0, x_trans |-> 0, y_trans |-> 0]
                        @@ overrides @@ RinkArgs
            r == HockeyRink_init(heap, args)
        IN  /\ heap' = r.heap
            /\ calls' = Append(calls, [fn |-> "HockeyRink", args |-> args,
                                       out |-> r.ref])

\* rink.draw(rotation = ...)
CallDraw ==
    /\ CanStep
    /\ \E self \in Surfaces, rotation \in Degrees :
        LET args == [display_range |-> Str["full"], xlim |-> PyNone,
                     ylim |-> PyNone, rotation |-> rotation]
            r == HockeyRink_draw(heap, self, args.display_range, args.xlim,
                                 args.ylim, args.rotation)
        IN  /\ heap' = r.heap
            /\ calls' = Append(calls, [fn |-> "draw", self |-> self,
                                       args |-> args,
                                       fresh |-> heap[self]._feature_xlim = PyNone,
                                       drawn |-> r.drawn,
                                       out |-> r.limits])

\* rink._get_plot_range_limits()
CallGetPlotRangeLimits ==
    /\ CanStep
    /\ \E self \in Surfaces, xlim \in {PyNone, PyFloat(One)} :
        LET args == [display_range |-> Str["full"], xlim |-> xlim,
                     ylim |-> PyNone]
        IN  /\ heap' = heap
            /\ calls' = Append(calls,
                   [fn |-> "_get_plot_range_limits", self |-> self,
                    args |-> args,
                    out |-> HockeyRink_get_plot_range_limits(heap[self],
                                args.display_range, args.xlim, args.ylim)])

NextSurface ==
    \/ CallDict
    \/ CallHockeyRink
    \/ CallDraw
    \/ CallGetPlotRangeLimits

SpecSurface == InitSurface /\ [][NextSurface]_vars

(***************************************************************************)
(* The caller of the plot limits: one rink, placed anywhere, and one       *)
(* question                                                                *)
(***************************************************************************)
Shifts == {-One, 0, One}

\* str.upper() and str.capitalize(), for the spellings of a display range
Upper(s) ==
    [i \in DOMAIN s |->
        IF \E c \in DOMAIN UpperToLower : UpperToLower[c] = s[i]
        THEN CHOOSE c \in DOMAIN UpperToLower : UpperToLower[c] = s[i]
        ELSE s[i]]

Capitalize(s) == [i \in DOMAIN s |-> IF i = 1 THEN Upper(s)[i] ELSE s[i]]

DisplayRanges ==
    UNION {{Str[name], Upper(Str[name]), Capitalize(Str[name])} :
              name \in DOMAIN Str}

\* the limits a caller asks for: none, a single number, a pair
XLimits ==
    {PyNone, PyFloat(0), PyFloat(-One), PyFloat(Two), PyFloat(-12 * One),
     PyFloat(10 * One), PyTuple(-One, Two), PyTuple(Two, -One),
     PyTuple(11 * One, 12 * One)}

YLimits ==
    {PyNone, PyFloat(0), PyFloat(-One), PyFloat(6 * One),
     PyTuple(-8 * One, -7 * One)}

\* the features a caller adds by keyword: none, or a marking of its own
AddedFeatures ==
    {<<>>,
     <<[class |-> "CenterLine", x_anchor |-> Two, y_anchor |-> 0,
        reflect_x |-> FALSE, reflect_y |-> FALSE,
        rink_width |-> 8 * One, feature_thickness |-> Half]>>}

\* HockeyRink(x_trans = ..., y_trans = ..., **added_features)
CallHockeyRinkAt ==
    /\ CanCreate
    /\ \E x_trans \in Shifts, y_trans \in Shifts,
          added_features \in AddedFeatures :
        LET args == [rotation |-> 0, x_trans |-> x_trans, y_trans |-> y_trans,
                     nzone |-> NzoneDefault, center_line |-> CenterLineDefault,
                     zone_line |-> ZoneLineDefault,
                     added_features |-> added_features] @@ RinkArgs
            r == HockeyRink_init(heap, args)
        IN  /\ heap' = r.heap
            /\ calls' = Append(calls, [fn |-> "HockeyRink", args |-> args,
                                       out |-> r.ref])

\* rink._get_plot_range_limits(display_range, xlim, ylim)
CallLimits ==
    /\ Len(calls) = 1
    /\ \E display_range \in DisplayRanges, xlim \in XLimits, ylim \in YLimits :
        LET self == calls[1].out
            args == [display_range |-> display_range, xlim |-> xlim,
                     ylim |-> ylim]
        IN  /\ heap' = heap
            /\ calls' = Append(calls,
                   [fn |-> "_get_plot_range_limits", self |-> self,
                    args |-> args,
                    out |-> HockeyRink_get_plot_range_limits(heap[self],
                                display_range, xlim, ylim)])

NextLimits ==
    \/ CallHockeyRinkAt
    \/ CallLimits

SpecLimits == InitSurface /\ [][NextLimits]_vars

(***************************************************************************)
(* helpers/scrapers/util.py: make_robust_request.  The frame of the call   *)
(* (its arguments and its local variables) is an object on the heap; the   *)
(* log holds the call and every GET that it issues, with its outcome.      *)
(***************************************************************************)
\* the largest num_retries a caller passes
MaxRetries == 3

\* the exceptions of a GET, each with the classes it is an instance of
ExceptionBases ==
    [ConnectionError |-> {"ConnectionError", "RequestException"},
     Timeout |-> {"Timeout", "RequestException"},
     ReadTimeout |-> {"ReadTimeout", "Timeout", "RequestException"},
     TooManyRedirects |-> {"TooManyRedirects", "RequestException"},
     KeyboardInterrupt |-> {"KeyboardInterrupt"}]

\* except (ConnectionError, Timeout)
Caught(error) == ExceptionBases[error] \cap {"ConnectionError", "Timeout"} # {}

Unbound == [type |-> "unbound"]

\* "return response": the name is bound by a GET that succeeded only
ReturnResponse(frame) ==
    IF frame.response = Unbound
    THEN [frame EXCEPT !.pc = "done", !.raised = "UnboundLocalError"]
    ELSE [frame EXCEPT !.pc = "done", !.returned = frame.response]

\* "while attempts < num_retries": the next GET, or the end of the loop
WhileAttempts(frame) ==
    IF frame.attempts < frame.num_retries
    THEN [frame EXCEPT !.pc = "get"]
    ELSE ReturnResponse(frame)

\* prepare_request(num_retries, timeout): a session, whose adapters are a
\* dict from prefix to adapter.  requests.Session() mounts a plain
\* HTTPAdapter on both prefixes; req.mount(prefix, adapter) is
\* self.adapters[prefix] = adapter; an HTTPAdapter built without
\* max_retries retries nothing, and only a TimeoutAdapter sends with a
\* timeout of its own
PrepareRequest(num_retries, timeout) ==
    LET HTTPAdapter(max_retries) ==
            [class |-> "HTTPAdapter", max_retries |-> max_retries,
             timeout |-> PyNone]
        TimeoutAdapter(t) ==
            [class |-> "TimeoutAdapter",
             max_retries |-> [total |-> 0, status_forcelist |-> {}],
             timeout |-> t]
        mount(req, prefix, adapter) ==
            [req EXCEPT !.adapters = (prefix :> adapter) @@ @]
        session ==
            [type |-> "Session",
             adapters |->
                 ("https://" :> HTTPAdapter([total |-> 0,
                                             status_forcelist |-> {}]))
                 @@ ("http://" :> HTTPAdapter([total |-> 0,
                                               status_forcelist |-> {}]))]
        retries == [total |-> num_retries,
                    status_forcelist |-> {500, 502, 503, 504}]
    IN  mount(mount(mount(mount(session,
            "http://", HTTPAdapter(retries)),
            "https://", HTTPAdapter(retries)),
            "http://", TimeoutAdapter(timeout)),
            "https://", TimeoutAdapter(timeout))

\* make_robust_request(url, num_retries, timeout) up to its first GET
MakeRobustRequest(url, num_retries, timeout) ==
    WhileAttempts([type |-> "frame", url |-> url, num_retries |-> num_retries,
                   timeout |-> timeout,
                   req |-> PrepareRequest(num_retries, timeout),
                   attempts |-> 0, response |-> Unbound, pc |-> "while",
                   returned |-> Unbound, raised |-> ""])

\* response = req.get(...); break; return response
OnResponse(frame, response) ==
    ReturnResponse([frame EXCEPT !.response = response])

\* a mutant of OnError: every exception is waited out
OnErrorRetryAll(frame, error) ==
    WhileAttempts([frame EXCEPT !.attempts = @ + 1])

\* the except clauses: a ConnectionError or a Timeout counts an attempt and
\* the loop goes on after the sleep; anything else is raised again
OnError(frame, error) ==
    IF Caught(error)
    THEN WhileAttempts([frame EXCEPT !.attempts = @ + 1])
    ELSE [frame EXCEPT !.pc = "done", !.raised = error]

Urls == {"http://a", "http://b"}

Running == calls # <<>> /\ heap[1].pc = "get"

CallMakeRobustRequest ==
    /\ calls = <<>>
    /\ \E url \in Urls, num_retries \in 0..MaxRetries,
          timeout \in {PyFloat(One), PyFloat(3 * One)} :
        /\ heap' = <<MakeRobustRequest(url, num_retries, timeout)>>
        /\ calls' = <<[fn |-> "make_robust_request", url |-> url,
                       num_retries |-> num_retries, timeout |-> timeout]>>

\* the GET returns a response
GetResponds ==
    /\ Running
    /\ LET response == [type |-> "Response", url |-> heap[1].url,
                        attempt |-> Len(calls)]
       IN  /\ heap' = <<OnResponse(heap[1], response)>>
           /\ calls' = Append(calls, [fn |-> "get", url |-> heap[1].url,
                                      outcome |-> "response",
                                      response |-> response])

\* the GET raises
GetRaises ==
    /\ Running
    /\ \E error \in DOMAIN ExceptionBases :
        /\ heap' = <<OnError(heap[1], error)>>
        /\ calls' = Append(calls, [fn |-> "get", url |-> heap[1].url,
                                   outcome |-> error])

NextRequest ==
    \/ CallMakeRobustRequest
    \/ GetResponds
    \/ GetRaises

SpecRequest == Init /\ [][NextRequest]_vars

(***************************************************************************)
(* surface_features/ncaa_bb.py: the generators of the NCAA basketball      *)
(* court.  Each builds one half of a marking, appends its reflection when  *)
(* full_surf is set and rotates the result when rotate is set.  The arcs   *)
(* have ArcPoints points, not the 1000 that circle() lays by default.      *)
(***************************************************************************)
PyStr(s) == [type |-> "str", value |-> s]

PyDataFrame(ref) == [type |-> "DataFrame", ref |-> ref]

\* a call of transform.rotate(df, rotation_dir, angle) with whatever the
\* caller passes: rotation_dir.lower() is the first thing evaluated and a
\* data frame has no attribute of that name; df.copy() comes next and a
\* str has none
TransformRotate(h, df, rotation_dir, angle) ==
    IF rotation_dir.type # "str" THEN Raised(h, "AttributeError")
    ELSE IF df.type # "DataFrame" THEN Raised(h, "AttributeError")
    ELSE Returned(Rotate(h, df.ref, rotation_dir.value, angle))

\* if full_surf: df = df.append(transform.reflect(df, over_y = True))
AppendReflection(h, df, full_surf) ==
    IF full_surf
    THEN Assign(Reflect(h, df, FALSE, TRUE), LAMBDA g :
             NewFrame(g.heap, g.heap[df].x \o g.heap[g.ref].x,
                      g.heap[df].y \o g.heap[g.ref].y))
    ELSE [heap |-> h, ref |-> df]

\* a / b for whole numbers a and b
fdivWhole(a, b) == Round((a \div One) * One, b \div One)

division_line(h, full_surf, rotate, rotation_dir) ==
    Assign(Rectangle(h, fdiv(-One, 12 * One), 0, -25 * One, 25 * One),
           LAMBDA r :
    Assign(AppendReflection(r.heap, r.ref, full_surf), LAMBDA f :
        IF rotate
        THEN TransformRotate(f.heap, PyDataFrame(f.ref), PyStr(rotation_dir),
                             Half)
        ELSE Returned(f)))

painted_area(h, full_surf, rotate, rotation_dir) ==
    Assign(Rectangle(h, -47 * One, fsub(-28 * One, fdiv(Two, 12 * One)),
                     fadd(-6 * One, fdiv(Two, 12 * One)),
                     fsub(6 * One, fdiv(Two, 12 * One))),
           LAMBDA r :
    Assign(AppendReflection(r.heap, r.ref, full_surf), LAMBDA f :
        IF rotate
        THEN TransformRotate(f.heap, PyDataFrame(f.ref), PyStr(rotation_dir),
                             Half)
        ELSE Returned(f)))

\* restricted_area_arc: transform.rotate(rotation_dir, restricted_area_arc)
restricted_area_arc(h, full_surf, rotate, rotation_dir) ==
    LET center == <<-(41 * One + 3 * Quarter), 0>>
        path == PdConcat(<<
            Fragment(<<-43 * One>>, <<fsub(-4 * One, fdiv(Two, 12 * One))>>),
            CircleColumns(center, ArcPoints,
                          fadd(8 * One, fdiv(4 * One, 12 * One)),
                          -Half, Half),
            Fragment(<<-43 * One, -43 * One>>,
                     <<fadd(4 * One, fdiv(Two, 12 * One)), 4 * One>>),
            CircleColumns(center, ArcPoints, 8 * One, Half, -Half),
            Fragment(<<-43 * One, -43 * One>>,
                     <<-4 * One, fsub(-4 * One, fdiv(Two, 12 * One))>>) >>)
    IN  Assign(path, LAMBDA df :
        Assign(NewFrame(h, df.x, df.y), LAMBDA r :
        Assign(AppendReflection(r.heap, r.ref, full_surf), LAMBDA f :
            IF rotate
            THEN TransformRotate(f.heap, PyStr(rotation_dir),
                                 PyDataFrame(f.ref), Half)
            ELSE Returned(f))))

\* m_three_pt_line: the angles of the arcs are computed in inches;
\* transform.rotate(rotation_dir, m_three_pt_line)
m_three_pt_line(h, full_surf, rotate, rotation_dir) ==
    LET center == <<-(41 * One + 3 * Quarter), 0>>
        start_y == fsub(300 * One, fadd(40 * One, fdiv(One, 8 * One)))
        radius_outer == fadd(264 * One, One + 3 * Quarter)
        a_outer == MathAsin(fdivWhole(start_y, radius_outer))
        start_angle_outer == -fdiv(a_outer.value, NpPi)
        end_angle_outer == -start_angle_outer
        radius_inner == fsub(fadd(264 * One, One + 3 * Quarter), Two)
        a_inner == MathAsin(fdivWhole(fsub(start_y, Two), radius_inner))
        start_angle_inner == fdiv(a_inner.value, NpPi)
        end_angle_inner == -start_angle_inner
        corner40 == fdiv(fadd(40 * One, fdiv(One, 8 * One)), 12 * One)
        corner42 == fdiv(fadd(42 * One, fdiv(One, 8 * One)), 12 * One)
        path == PdConcat(<<
            Fragment(<<-47 * One>>, <<fadd(-25 * One, corner40)>>),
            CircleColumns(center, ArcPoints,
                          fmul(Two, fdivWhole(radius_outer, 12 * One)),
                          start_angle_outer, end_angle_outer),
            Fragment(<<-47 * One, -47 * One>>,
                     <<fsub(25 * One, corner40), fsub(25 * One, corner42)>>),
            CircleColumns(center, ArcPoints,
                          fmul(Two, fdivWhole(radius_inner, 12 * One)),
                          start_angle_inner, end_angle_inner),
            Fragment(<<-47 * One, -47 * One>>,
                     <<fadd(-25 * One, corner42),
                       fadd(-25 * One, corner40)>>) >>)
    IN  IF a_outer.raised # "" THEN Raised(h, a_outer.raised)
        ELSE IF a_inner.raised # "" THEN Raised(h, a_inner.raised)
        ELSE Assign(path, LAMBDA df :
             Assign(NewFrame(h, df.x, df.y), LAMBDA r :
             Assign(AppendReflection(r.heap, r.ref, full_surf), LAMBDA f :
                 IF rotate
                 THEN TransformRotate(f.heap, PyStr(rotation_dir),
                                      PyDataFrame(f.ref), Half)
                 ELSE Returned(f))))

w_three_pt_line(h, full_surf, rotate, rotation_dir) ==
    LET center == <<-(41 * One + 3 * Quarter), 0>>
        y == 20 * One + 3 * Quarter
        path == PdConcat(<<
            Fragment(<<-47 * One>>, <<-y>>),
            CircleColumns(center, ArcPoints, 41 * One + Half, -Half, Half),
            Fragment(<<-47 * One, -47 * One>>,
                     <<y, fsub(y, fdiv(Two, 12 * One))>>),
            CircleColumns(center, ArcPoints,
                          fsub(41 * One + Half, fdiv(4 * One, 12 * One)),
                          Half, -Half),
            Fragment(<<-47 * One, -47 * One>>,
                     <<fadd(-y, fdiv(Two, 12 * One)), -y>>) >>)
    IN  Assign(path, LAMBDA df :
        Assign(NewFrame(h, df.x, df.y), LAMBDA r :
        Assign(AppendReflection(r.heap, r.ref, full_surf), LAMBDA f :
            IF rotate
            THEN TransformRotate(f.heap, PyDataFrame(f.ref),
                                 PyStr(rotation_dir), Half)
            ELSE Returned(f))))

\* the caller of the generators
DirClockwise == <<"c", "l", "o", "c", "k", "w", "i", "s", "e">>

GeneratorArgs ==
    [full_surf : BOOLEAN, rotate : BOOLEAN,
     rotation_dir : {DirCcw, DirCounter, DirCounterclockwise, DirCCW, DirCw,
                     DirClockwise}]

CallDivisionLine ==
    /\ CanCreate
    /\ \E a \in GeneratorArgs :
        LET r == division_line(heap, a.full_surf, a.rotate, a.rotation_dir)
        IN  /\ heap' = r.heap
            /\ calls' = Append(calls, Call("division_line", a, 0, r))

CallPaintedArea ==
    /\ CanCreate
    /\ \E a \in GeneratorArgs :
        LET r == painted_area(heap, a.full_surf, a.rotate, a.rotation_dir)
        IN  /\ heap' = r.heap
            /\ calls' = Append(calls, Call("painted_area", a, 0, r))

CallRestrictedAreaArc ==
    /\ CanCreate
    /\ \E a \in GeneratorArgs :
        LET r == restricted_area_arc(heap, a.full_surf, a.rotate,
                                     a.rotation_dir)
        IN  /\ heap' = r.heap
            /\ calls' = Append(calls, Call("restricted_area_arc", a, 0, r))

CallMThreePtLine ==
    /\ CanCreate
    /\ \E a \in GeneratorArgs :
        LET r == m_three_pt_line(heap, a.full_surf, a.rotate, a.rotation_dir)
        IN  /\ heap' = r.heap
            /\ calls' = Append(calls, Call("m_three_pt_line", a, 0, r))

CallWThreePtLine ==
    /\ CanCreate
    /\ \E a \in GeneratorArgs :
        LET r == w_three_pt_line(heap, a.full_surf, a.rotate, a.rotation_dir)
        IN  /\ heap' = r.heap
            /\ calls' = Append(calls, Call("w_three_pt_line", a, 0, r))

NextGenerator ==
    \/ CallDivisionLine
    \/ CallPaintedArea
    \/ CallRestrictedAreaArc
    \/ CallMThreePtLine
    \/ CallWThreePtLine

SpecGenerator == Init /\ [][NextGenerator]_vars

(***************************************************************************)
(* _base_classes/_base_surface_plot.py: the _validate_values decorator.    *)
(* x and y are numpy arrays; values is None, a list or a numpy array.  A   *)
(* number of an array may be NaN, which is written as a number that no     *)
(* computation of the model yields and is compared as NaN is: every        *)
(* comparison with it is false.                                            *)
(***************************************************************************)
\* the longest array a caller plots
MaxN == 2

NaN == -(2 ^ 30)

\* a < b of two floats
Less(a, b) == a # NaN /\ b # NaN /\ a < b

\* bool(values) in "if not values": None and the empty list are false, a
\* list with elements is true, an array of one element is its element,
\* and a longer array has no truth value (ValueError)
ValuesTruth(values) ==
    CASE values.type = "NoneType" -> [raised |-> "", value |-> FALSE]
      [] values.type = "list" ->
            [raised |-> "", value |-> values.items # <<>>]
      [] values.type = "ndarray" ->
            IF Len(values.items) > 1
            THEN [raised |-> "ValueError", value |-> FALSE]
            ELSE [raised |-> "",
                  value |-> values.items # <<>> /\ values.items[1] # 0]

\* a mutant of Mask: only the limits are looked at
MaskLimitsOnly(x, y, values, plot_xlim, plot_ylim) ==
    [i \in DOMAIN x |->
        \/ Less(x[i], plot_xlim[1]) \/ Less(plot_xlim[2], x[i])
        \/ Less(y[i], plot_ylim[1]) \/ Less(plot_ylim[2], y[i])]

\* mask = (x < plot_xlim[0]) | (x > plot_xlim[1]) | (y < plot_ylim[0])
\*        | (y > plot_ylim[1]) | np.isnan(x) | np.isnan(y) | np.isnan(values)
Mask(x, y, values, plot_xlim, plot_ylim) ==
    [i \in DOMAIN x |->
        \/ Less(x[i], plot_xlim[1]) \/ Less(plot_xlim[2], x[i])
        \/ Less(y[i], plot_ylim[1]) \/ Less(plot_ylim[2], y[i])
        \/ x[i] = NaN \/ y[i] = NaN \/ values[i] = NaN]

\* array[~mask]
Keep(array, mask) ==
    LET kept == {i \in DOMAIN array : ~mask[i]}
        RECURSIVE pick(_)
        pick(i) ==
            IF i > Len(array) THEN <<>>
            ELSE (IF i \in kept THEN <<array[i]>> ELSE <<>>) \o pick(i + 1)
    IN  pick(1)

\* the wrapper of _validate_values, up to the call of the plotting
\* function.  limits is what get_limits() returns and outside the points
\* that _outside_boundaries_to_nan() finds outside the surface
ValidateValues(x, y, values, symmetrize, limits, outside) ==
    LET given == ValuesTruth(values)
        flat == IF symmetrize THEN values.items \o values.items
                ELSE values.items
        vals == IF given.value THEN flat ELSE [i \in DOMAIN x |-> One]
        nans == [i \in DOMAIN vals |-> IF i \in outside THEN NaN ELSE vals[i]]
        mask == Mask(x, y, nans, limits.x, limits.y)
    IN  IF given.raised # ""
        THEN [raised |-> given.raised, called |-> FALSE]
        ELSE IF Len(x) # Len(y) \/ Len(x) # Len(vals)
        THEN [raised |-> "Exception", called |-> FALSE]
        ELSE [raised |-> "", called |-> TRUE,
              x |-> Keep(x, mask), y |-> Keep(y, mask),
              values |-> Keep(nans, mask),
              plot_xlim |-> limits.x, plot_ylim |-> limits.y]

Arrays(numbers) == UNION {[1..n -> numbers] : n \in 0..MaxN}

ValuesArgs ==
    {PyNone} \cup {[type |-> t, items |-> a] :
                      t \in {"list", "ndarray"}, a \in Arrays({NaN, 0, Two})}

PlotLimits ==
    {[x |-> <<0, Two>>, y |-> <<0, Two>>],
     [x |-> <<One, 3 * One>>, y |-> <<One, One>>]}

\* rink.scatter(x, y, values = ...), any plotting method under the decorator
CallPlot ==
    /\ CanCreate
    /\ \E x \in Arrays({NaN, One, 3 * One}), y \in Arrays({NaN, One}),
          values \in ValuesArgs, symmetrize \in BOOLEAN,
          limits \in PlotLimits, outside \in {{}, {1}} :
        /\ heap' = heap
        /\ calls' = <<[fn |-> "plot",
                       args |-> [x |-> x, y |-> y, values |-> values,
                                 symmetrize |-> symmetrize, limits |-> limits,
                                 outside |-> outside],
                       out |-> ValidateValues(x, y, values, symmetrize,
                                              limits, outside)]>>

NextPlot == CallPlot

SpecPlot == Init /\ [][NextPlot]_vars

(***************************************************************************)
(* Properties.  A call is read from the log: its input as it was when the  *)
(* call was made (before) and the frame it returned.                       *)
(***************************************************************************)
CallsOf(fn) == {i \in DOMAIN calls : calls[i].fn = fn}

Result(i) == heap[calls[i].out]

\* call j was made on the frame that call i returned
Chained(i, j) == i < j /\ calls[j].df = calls[i].out

\* r is a representable number nearest to the rational n / d
Nearest(r, n, d) == 2 * Abs(r * d - n) <= d * Quantum(Abs(n) \div d)

\* a and b differ by at most k machine epsilons of the magnitude m
Within(a, b, k, m) == EpsInv * Abs(a - b) <= k * m

Sign(flag) == IF flag THEN -1 ELSE 1

\* C1: reflect() (and the features' _reflect()) returns a sequence of the
\* same length and order in which (x, y) has become (sx * x, sy * y),
\* sx = -1 iff over_y and sy = -1 iff over_x; with both flags false the
\* points are unchanged.
C1_ReflectNegates ==
    \A i \in CallsOf("reflect") \cup CallsOf("_reflect") :
        LET P == calls[i].before
            R == Result(i)
            sx == Sign(calls[i].args.over_y)
            sy == Sign(calls[i].args.over_x)
        IN  /\ DOMAIN R.x = DOMAIN P.x
            /\ DOMAIN R.y = DOMAIN P.y
            /\ \A k \in DOMAIN P.x :
                R.x[k] = sx * P.x[k] /\ R.y[k] = sy * P.y[k]

C1_Witness ==
    \E i \in CallsOf("reflect") :
        /\ calls[i].args.over_x /\ calls[i].args.over_y
        /\ calls[i].before = [x |-> <<Tiny, 0>>, y |-> <<One, One>>]
        /\ Result(i) = [x |-> <<-Tiny, 0>>, y |-> <<-One, -One>>]

\* C2: reflect() applied twice with the same flags gives back the points
\* it started from, in the same order.
C2_ReflectInvolution ==
    \A i, j \in CallsOf("reflect") :
        Chained(i, j) /\ calls[j].args = calls[i].args
            => Result(j) = calls[i].before

C2_Witness ==
    \E i, j \in CallsOf("reflect") :
        /\ Chained(i, j) /\ calls[j].args = calls[i].args
        /\ calls[i].args.over_y
        /\ Len(calls[i].before.x) = 2
        /\ Result(i) # calls[i].before
        /\ Result(j) = calls[i].before

\* translate() gives, in the same order, the floating-point sums x + dx and
\* y + dy
TranslateAdds ==
    \A i \in CallsOf("translate") :
        LET P == calls[i].before
            R == Result(i)
        IN  /\ DOMAIN R.x = DOMAIN P.x
            /\ DOMAIN R.y = DOMAIN P.y
            /\ \A k \in DOMAIN P.x :
                /\ Nearest(R.x[k], P.x[k] + calls[i].args.translate_x, 1)
                /\ Nearest(R.y[k], P.y[k] + calls[i].args.translate_y, 1)

\* call j translates back by the offsets of call i
TranslatesBack(i, j) ==
    /\ Chained(i, j)
    /\ calls[j].args.translate_x = -calls[i].args.translate_x
    /\ calls[j].args.translate_y = -calls[i].args.translate_y

\* C3 as stated: translate() adds dx to every x and dy to every y, and
\* translating back by (-dx, -dy) gives exactly the original points.
C3_TranslateInverseExact ==
    /\ TranslateAdds
    /\ \A i, j \in CallsOf("translate") :
        TranslatesBack(i, j) => Result(j) = calls[i].before

\* C3 (amended): translate() adds dx to every x and dy to every y in
\* floating point, and translating back by (-dx, -dy) gives the original
\* points up to rounding: each coordinate is within one machine epsilon of
\* |x| + |dx| (of |y| + |dy|) of the original.
C3_TranslateInverseRounded ==
    /\ TranslateAdds
    /\ \A i, j \in CallsOf("translate") :
        TranslatesBack(i, j) =>
            LET P == calls[i].before
                R == Result(j)
            IN  /\ DOMAIN R.x = DOMAIN P.x
                /\ DOMAIN R.y = DOMAIN P.y
                /\ \A k \in DOMAIN P.x :
                    /\ Within(R.x[k], P.x[k], 1,
                              Abs(P.x[k]) + Abs(calls[i].args.translate_x))
                    /\ Within(R.y[k], P.y[k], 1,
                              Abs(P.y[k]) + Abs(calls[i].args.translate_y))

\* a round trip that loses the low bits of x: 2^-8 + 1.0 rounds to 1.0
C3_Witness ==
    \E i, j \in CallsOf("translate") :
        /\ TranslatesBack(i, j)
        /\ calls[i].args.translate_x = One
        /\ calls[i].before = [x |-> <<Tiny>>, y |-> <<One>>]
        /\ Result(j) = [x |-> <<0>>, y |-> <<One>>]

UnitSquare ==
    [x |-> <<-Half, Half, Half, -Half, -Half>>,
     y |-> <<-Half, -Half, Half, Half, -Half>>]

\* C4: scale() returns, in the same order, the floating-point products
\* (k * x, k * y); scale(P, 1) is P, and the unit square scaled by 2 is the
\* square with its corners at (+-1, +-1).
C4_ScaleMultiplies ==
    \A i \in CallsOf("scale") :
        LET P == calls[i].before
            R == Result(i)
            k == calls[i].args.scale_factor
        IN  /\ DOMAIN R.x = DOMAIN P.x
            /\ DOMAIN R.y = DOMAIN P.y
            /\ \A n \in DOMAIN P.x :
                /\ Nearest(R.x[n], k * P.x[n], One)
                /\ Nearest(R.y[n], k * P.y[n], One)
            /\ k = One => R = P
            /\ k = Two /\ P = UnitSquare =>
                R = [x |-> <<-One, One, One, -One, -One>>,
                     y |-> <<-One, -One, One, One, -One>>]

C4_Witness ==
    /\ Len(calls) > 1
    /\ calls[1].fn = "square"
    /\ calls[1].args = [side_length |-> One, center |-> <<0, 0>>]
    /\ calls[2].fn = "scale"
    /\ calls[2].args.scale_factor = Two
    /\ calls[2].before = UnitSquare
    /\ Result(2).x = <<-One, One, One, -One, -One>>

\* the spellings of the counter-clockwise direction among Rotations
CcwSpellings == {DirCcw, DirCounter, DirCounterclockwise, DirCCW}

IsCcw(i) == calls[i].args.rotation_dir \in CcwSpellings

QuarterTurns == {i \in CallsOf("rotate") : calls[i].args.angle = Half}

\* C5 as stated: a quarter turn (angle = 0.5) maps every (x, y) to exactly
\* (-y, x) counter-clockwise, under every spelling and letter case of the
\* direction, and to exactly (y, -x) clockwise.
C5_QuarterTurnExact ==
    \A i \in QuarterTurns :
        LET P == calls[i].before
            R == Result(i)
        IN  /\ DOMAIN R.x = DOMAIN P.x
            /\ \A k \in DOMAIN P.x :
                IF IsCcw(i)
                THEN R.x[k] = -P.y[k] /\ R.y[k] = P.x[k]
                ELSE R.x[k] = P.y[k] /\ R.y[k] = -P.x[k]

\* C5 (amended): a quarter turn maps every (x, y) to (-y, x)
\* counter-clockwise, under every spelling and letter case of the
\* direction, and to (y, -x) clockwise, up to rounding: each coordinate is
\* within one machine epsilon of max(|x|, |y|), since cos(0.5 * pi) is
\* computed as a small positive number and not as 0.
C5_QuarterTurnRounded ==
    \A i \in QuarterTurns :
        LET P == calls[i].before
            R == Result(i)
        IN  /\ DOMAIN R.x = DOMAIN P.x
            /\ DOMAIN R.y = DOMAIN P.y
            /\ \A k \in DOMAIN P.x :
                LET m == Max(Abs(P.x[k]), Abs(P.y[k]))
                IN  IF IsCcw(i)
                    THEN /\ Within(R.x[k], -P.y[k], 1, m)
                         /\ Within(R.y[k], P.x[k], 1, m)
                    ELSE /\ Within(R.x[k], P.y[k], 1, m)
                         /\ Within(R.y[k], -P.x[k], 1, m)

\* (0, 1) turned counter-clockwise, spelled 'COUNTERCLOCKWISE': x is -1
\* and y is the small positive cos(0.5 * pi)
C5_Witness ==
    \E i \in QuarterTurns :
        /\ calls[i].args.rotation_dir = DirCounterclockwise
        /\ calls[i].before = [x |-> <<0>>, y |-> <<One>>]
        /\ Result(i).x = <<-One>>
        /\ Result(i).y[1] > 0
        /\ Result(i).y[1] < Tiny

\* call j turns back by the angle of the counter-clockwise call i: the
\* same angle clockwise, or the negated angle counter-clockwise
RotatesBack(i, j) ==
    /\ Chained(i, j)
    /\ IsCcw(i)
    /\ \/ ~IsCcw(j) /\ calls[j].args.angle = calls[i].args.angle
       \/ IsCcw(j) /\ calls[j].args.angle = -calls[i].args.angle

\* C6 as stated: rotating by a counter-clockwise and then by a clockwise
\* (or by -a counter-clockwise) returns exactly the original points.
C6_RotateInverseExact ==
    \A i, j \in CallsOf("rotate") :
        RotatesBack(i, j) => Result(j) = calls[i].before

\* C6 (amended): rotating by a counter-clockwise and then by a clockwise
\* (or by -a counter-clockwise) returns the original points in the
\* original order up to rounding: each coordinate is within 8 machine
\* epsilons of max(|x|, |y|) of the original.
C6_RotateInverseRounded ==
    \A i, j \in CallsOf("rotate") :
        RotatesBack(i, j) =>
            LET P == calls[i].before
                R == Result(j)
            IN  /\ DOMAIN R.x = DOMAIN P.x
                /\ DOMAIN R.y = DOMAIN P.y
                /\ \A k \in DOMAIN P.x :
                    LET m == Max(Abs(P.x[k]), Abs(P.y[k]))
                    IN  /\ Within(R.x[k], P.x[k], 8, m)
                        /\ Within(R.y[k], P.y[k], 8, m)

\* an eighth of a turn and back that does not return the point exactly
C6_Witness ==
    \E i, j \in CallsOf("rotate") :
        /\ RotatesBack(i, j)
        /\ calls[i].args.angle = Quarter
        /\ Len(calls[i].before.x) = 1
        /\ Result(i) # calls[i].before
        /\ Result(j) # calls[i].before

Transforms == {"reflect", "rotate", "translate", "scale"}

\* C7: no transform modifies its input: after any sequence of calls the
\* frame passed to a call holds the points it held before the call, and
\* the frame returned is another object.
C7_InputNotModified ==
    \A i \in DOMAIN calls :
        calls[i].fn \in Transforms =>
            /\ heap[calls[i].df] = calls[i].before
            /\ calls[i].out # calls[i].df

\* two different transforms of the same non-empty frame, both of which
\* return other points than they were given
C7_Witness ==
    /\ Len(calls) = 3
    /\ calls[2].df = calls[1].out
    /\ calls[3].df = calls[1].out
    /\ calls[2].fn = "translate"
    /\ calls[3].fn = "rotate"
    /\ Len(calls[2].before.x) > 0
    /\ Result(2) # calls[2].before
    /\ Result(3) # calls[3].before
    /\ heap[calls[1].out] = calls[2].before

\* C8: rectangle(), square() and diamond() each return a 5-point path whose
\* first and last points are identical.
C8_ShapesReturnClosedPath ==
    \A i \in CallsOf("rectangle") \cup CallsOf("square") \cup CallsOf("diamond") :
        /\ calls[i].raised = ""
        /\ calls[i].out # 0
        /\ Len(Result(i).x) = 5
        /\ Len(Result(i).y) = 5
        /\ Result(i).x[1] = Result(i).x[5]
        /\ Result(i).y[1] = Result(i).y[5]

\* C9: square(s, center = (cx, cy)) returns the same point sequence as
\* rectangle(cx - s/2, cx + s/2, cy - s/2, cy + s/2), starting at the
\* bottom-left corner; for s = 1 at the origin the corners are
\* (+-0.5, +-0.5).
C9_SquareIsRectangle ==
    \A i \in CallsOf("square") :
        LET s == calls[i].args.side_length
            cx == calls[i].args.center[1]
            cy == calls[i].args.center[2]
            rect == Rectangle(<<>>, fsub(cx, fdiv(s, Two)), fadd(cx, fdiv(s, Two)),
                              fsub(cy, fdiv(s, Two)), fadd(cy, fdiv(s, Two)))
            R == Result(i)
        IN  /\ calls[i].raised = ""
            /\ R = rect.heap[rect.ref]
            /\ \A k \in DOMAIN R.x : R.x[1] <= R.x[k] /\ R.y[1] <= R.y[k]
            /\ s = One /\ cx = 0 /\ cy = 0 => R = UnitSquare

C9_Witness ==
    \E i \in CallsOf("square") :
        /\ calls[i].args = [side_length |-> One + Half, center |-> <<One, -Half>>]
        /\ Result(i).x = <<Quarter, One + Half + Quarter, One + Half + Quarter,
                           Quarter, Quarter>>
        /\ Result(i).y[1] = -(One + Quarter)

\* C10: diamond(h, w, center = (cx, cy)) returns the closed 5-point path
\* (cx - w/2, cy), (cx, cy - h/2), (cx + w/2, cy), (cx, cy + h/2),
\* (cx - w/2, cy).
C10_DiamondPath ==
    \A i \in CallsOf("diamond") :
        LET hh == calls[i].args.height
            w == calls[i].args.width
            cx == calls[i].args.center[1]
            cy == calls[i].args.center[2]
        IN  /\ calls[i].raised = ""
            /\ calls[i].out # 0
            /\ Result(i) =
                [x |-> << fsub(cx, fdiv(w, Two)), cx, fadd(cx, fdiv(w, Two)),
                          cx, fsub(cx, fdiv(w, Two)) >>,
                 y |-> << cy, fsub(cy, fdiv(hh, Two)), cy,
                          fadd(cy, fdiv(hh, Two)), cy >>]

(***************************************************************************)
(* circle()                                                                *)
(***************************************************************************)
\* the angles start * pi and end * pi of a logged circle() call
ArcStart(i) == fmul(calls[i].args.start, NpPi)
ArcEnd(i) == fmul(calls[i].args.end, NpPi)

\* angle k of n lies where even spacing from a to b puts it, up to the
\* rounding of the three operations that compute it
EvenlySpaced(theta, k, n, a, b) ==
    EpsInv * Abs(theta * (n - 1) - (a * (n - 1) + (k - 1) * (b - a)))
        <= 4 * (n - 1) * Max(Abs(a), Abs(b))

\* what C11 says of call i, but for which of its points sit on the ends of
\* the arc: the number of points, their angles and the points themselves
ArcOf(i) ==
    LET c == calls[i]
        n == c.args.npoints
        r == fdiv(c.args.d, Two)
    IN  /\ Len(Result(i).x) = n /\ Len(Result(i).y) = n /\ Len(c.pts) = n
        /\ \A k \in 1..n :
            /\ Result(i).x[k] = fadd(c.args.center[1], fmul(r, MathCos(c.pts[k])))
            /\ Result(i).y[k] = fadd(c.args.center[2], fmul(r, MathSin(c.pts[k])))
            /\ n > 1 => EvenlySpaced(c.pts[k], k, n, ArcStart(i), ArcEnd(i))
        /\ \A k \in 1..(n - 1) :
            /\ c.args.start < c.args.end => c.pts[k] < c.pts[k + 1]
            /\ c.args.start > c.args.end => c.pts[k] > c.pts[k + 1]
        /\ c.args.start = c.args.end =>
            \A k \in 1..n : /\ c.pts[k] = ArcStart(i)
                             /\ Result(i).x[k] = Result(i).x[1]
                             /\ Result(i).y[k] = Result(i).y[1]

\* C11 as stated: circle() returns exactly N points at angles evenly
\* spaced from start * pi to end * pi, the first at start * pi and the last
\* at end * pi, increasing when start < end, decreasing when start > end
\* and all the same point when start = end.
C11_ArcEndsInclusive ==
    \A i \in CallsOf("circle") :
        /\ ArcOf(i)
        /\ calls[i].args.npoints >= 1 =>
            /\ calls[i].pts[1] = ArcStart(i)
            /\ Last(calls[i].pts) = ArcEnd(i)

\* C11 as amended: the same, with the last point at end * pi when two or
\* more points are asked for; a single point is the one at start * pi.
C11_ArcEndsInclusiveFromTwo ==
    \A i \in CallsOf("circle") :
        /\ ArcOf(i)
        /\ calls[i].args.npoints >= 1 => calls[i].pts[1] = ArcStart(i)
        /\ calls[i].args.npoints >= 2 => Last(calls[i].pts) = ArcEnd(i)

\* a three-point half circle, counter-clockwise: the angles 0, pi / 2, pi
C11_Witness ==
    \E i \in CallsOf("circle") :
        /\ calls[i].args.npoints = 3
        /\ calls[i].args.start = 0 /\ calls[i].args.end = One
        /\ calls[i].pts = <<0, NpPi \div 2, NpPi>>

\* C12: every point of circle() lies at distance d / 2 from the center up
\* to rounding (the squared distance is within 5 machine epsilons of
\* (d / 2) * (d / 2 + |center|)), for every start and end; the points of
\* the unit circle (d = 2, center (0, 0), start 0, end 2) are at distance 1.
C12_PointsAtRadius ==
    \A i \in CallsOf("circle") :
        LET c == calls[i]
            r == c.args.d \div 2
            m == r + Max(Abs(c.args.center[1]), Abs(c.args.center[2]))
        IN  \A k \in DOMAIN Result(i).x :
                LET dx == Result(i).x[k] - c.args.center[1]
                    dy == Result(i).y[k] - c.args.center[2]
                IN  Abs(dx * dx + dy * dy - r * r) <= (5 * r * m) \div EpsInv

\* the unit circle with the largest number of points
C12_Witness ==
    \E i \in CallsOf("circle") :
        /\ calls[i].args = [center |-> <<0, 0>>, npoints |-> MaxPoints,
                            d |-> Two, start |-> 0, end |-> Two]
        /\ Len(Result(i).x) = MaxPoints

(***************************************************************************)
(* features                                                                *)
(***************************************************************************)
FeatureCalls ==
    CallsOf("OzoneDzoneFaceoffCircle._get_centered_feature")
        \cup CallsOf("ThreePointLine._get_centered_feature")
        \cup CallsOf("GoalCreaseOutline._get_centered_feature")

\* the quotients (numerator, denominator) whose arcsine feature call i
\* derives from its attributes
AsinArguments(i) ==
    LET self == calls[i].args
    IN  CASE calls[i].fn = "OzoneDzoneFaceoffCircle._get_centered_feature" ->
               LET ext == fdiv(self.hashmark_ext_spacing, Two)
               IN  {<<ext, self.feature_radius>>,
                    <<fsub(ext, self.feature_thickness), self.feature_radius>>}
          [] calls[i].fn = "ThreePointLine._get_centered_feature" ->
               LET outer == fdiv(self.feature_width, Two)
               IN  {<<outer, self.feature_radius>>,
                    <<fsub(outer, self.feature_thickness),
                      fsub(self.feature_radius, self.feature_thickness)>>}
          [] calls[i].fn = "GoalCreaseOutline._get_centered_feature" ->
               {<<self.goal_crease_width, self.feature_radius>>}

\* some arcsine argument of call i has a magnitude greater than 1
AsinOutOfDomain(i) ==
    \E a \in AsinArguments(i) : a[2] # 0 /\ Abs(fdiv(a[1], a[2])) > One

\* C13: when an arcsine argument that a feature derives has a magnitude
\* greater than 1, generating the feature raises and returns no point
\* sequence (no frame is even built); a path that is returned comes from
\* arguments inside [-1, 1] and holds numbers only.
C13_AsinDomainErrorRaises ==
    \A i \in FeatureCalls :
        /\ AsinOutOfDomain(i) =>
            /\ calls[i].raised \in {"ValueError", "ZeroDivisionError"}
            /\ calls[i].out = 0
            /\ heap = <<>>
        /\ calls[i].out # 0 =>
            /\ ~AsinOutOfDomain(i)
            /\ \A k \in DOMAIN Result(i).x :
                Result(i).x[k] \in Int /\ Result(i).y[k] \in Int

\* a faceoff circle whose first arcsine argument is 1 and whose second is
\* -3: the second math.asin raises
C13_Witness ==
    \E i \in CallsOf("OzoneDzoneFaceoffCircle._get_centered_feature") :
        /\ calls[i].args.feature_radius = One
        /\ calls[i].args.hashmark_ext_spacing = Two
        /\ calls[i].args.feature_thickness = 4 * One
        /\ AsinOutOfDomain(i)
        /\ calls[i].raised = "ValueError"

(***************************************************************************)
(* Surfaces                                                                *)
(***************************************************************************)
IsVisible(feature) ==
    IF "visible" \in DOMAIN feature THEN feature.visible ELSE TRUE

\* the translated points of the visible features of a surface, the boards
\* and the constraint left out
VisiblePoints(self, col) ==
    UNION {{TranslateFeature(f)[col][k] : k \in 1..5} :
              f \in {self._features[k] : k \in
                        {j \in DOMAIN self._features :
                            /\ IsVisible(self._features[j])
                            /\ self._features[j].class
                                   \notin {"Boards", "BoardsConstraint"}}}}

\* [min, max] of a set of numbers, None of the empty set
Extent(values) ==
    IF values = {} THEN PyNone
    ELSE PyList(CHOOSE v \in values : \A w \in values : v <= w,
                CHOOSE v \in values : \A w \in values : v >= w)

\* C14: once draw() has run on a surface that was not drawn before, the
\* extents of the surface are [min x, max x] and [min y, max y] over the
\* points of its visible features, the boards and the constraint left out
C14_ExtentsCoverVisibleFeatures ==
    (calls # <<>> /\ Last(calls).fn = "draw" /\ Last(calls).fresh) =>
        LET self == heap[Last(calls).self]
        IN  /\ self._feature_xlim = Extent(VisiblePoints(self, "x"))
            /\ self._feature_ylim = Extent(VisiblePoints(self, "y"))

IsConstraint(feature) == feature.class = "BoardsConstraint"

\* C15: a rink that has been built holds exactly one constraint feature:
\* it is in _surface_constraint, it is not visible and it is not one of
\* _features; draw() draws none but the features of the list, and each of
\* its extents is a coordinate of a visible feature that is neither the
\* boards nor the constraint
C15_ConstraintKeptApart ==
    /\ \A r \in Surfaces :
        /\ IsConstraint(heap[r]._surface_constraint)
        /\ ~IsVisible(heap[r]._surface_constraint)
        /\ \A k \in DOMAIN heap[r]._features :
               ~IsConstraint(heap[r]._features[k])
        /\ \A lim \in {"x", "y"} :
               LET cache == IF lim = "x" THEN heap[r]._feature_xlim
                            ELSE heap[r]._feature_ylim
               IN  cache # PyNone =>
                       \A k \in 1..2 :
                           cache.items[k] \in VisiblePoints(heap[r], lim)
    /\ \A i \in CallsOf("draw") :
        /\ calls[i].drawn = heap[calls[i].self]._features
        /\ \A k \in DOMAIN calls[i].drawn : ~IsConstraint(calls[i].drawn[k])

\* a rink has been built and drawn: its extents are set
C15_Witness ==
    \E i \in CallsOf("draw") :
        /\ heap[calls[i].self]._feature_xlim # PyNone
        /\ Len(calls[i].drawn) = 4

\* a surface without the attributes named
Without(self, names) == [k \in DOMAIN self \ names |-> self[k]]

ExtentCache == {"_feature_xlim", "_feature_ylim"}

\* the extents of a surface, once set, stay set: no way back to the
\* surface that was not drawn
StaysDrawn(r) ==
    /\ heap[r]._feature_xlim # PyNone => heap'[r]._feature_xlim # PyNone
    /\ heap[r]._feature_ylim # PyNone => heap'[r]._feature_ylim # PyNone

\* C16, as stated: no call changes anything of a surface but its extent
\* cache (the features, the constraint, the dimensions and the rotation
\* stay), and a drawn surface stays drawn
C16_ImmutableButExtents ==
    [][\A r \in Surfaces :
          /\ Without(heap'[r], ExtentCache) = Without(heap[r], ExtentCache)
          /\ StaysDrawn(r)]_vars

\* C16, amended: no call changes anything of a surface but its extent cache
\* and its rotation; the rotation changes only in draw(rotation = r) with
\* r other than None and 0, and becomes r; _get_plot_range_limits()
\* changes nothing at all; a drawn surface stays drawn
C16_ImmutableButExtentsAndRotation ==
    [][\A r \in Surfaces :
          LET call == Last(calls')
              rotates == /\ call.fn = "draw"
                         /\ call.self = r
                         /\ Truthy(call.args.rotation)
          IN  /\ Without(heap'[r], ExtentCache \cup {"_rotation"})
                     = Without(heap[r], ExtentCache \cup {"_rotation"})
              /\ StaysDrawn(r)
              /\ heap'[r]._rotation =
                     IF rotates THEN RotateDeg(call.args.rotation.value)
                     ELSE heap[r]._rotation
              /\ call.fn = "_get_plot_range_limits" => heap' = heap]_vars

\* a rink was drawn with a rotation and was asked for its limits
C16_Witness ==
    \E i \in CallsOf("draw"), j \in CallsOf("_get_plot_range_limits") :
        /\ calls[i].self = calls[j].self
        /\ i < j
        /\ Truthy(calls[i].args.rotation)
        /\ heap[calls[i].self]._rotation = RotateDeg(90 * One)
        /\ heap[calls[i].self]._feature_xlim # PyNone

\* the descriptors of a surface, in order, and its constraint
Descriptors(r) ==
    [features |-> heap'[r]._features,
     constraint |-> heap'[r]._surface_constraint]

\* C17: a rink built with the arguments of an earlier rink (the same dict
\* objects, the shared defaults among them) has the descriptors of that
\* rink, in the same order, whatever was built or drawn in between; and no
\* call changes a dict, a default or one of the caller
C17_ConstructionReproducible ==
    [][/\ \A d \in Dicts : heap'[d] = heap[d]
       /\ Last(calls').fn = "HockeyRink" =>
              \A i \in CallsOf("HockeyRink") :
                  calls[i].args = Last(calls').args =>
                      Descriptors(calls[i].out)
                          = Descriptors(Last(calls').out)]_vars

\* two rinks were built with the same arguments, a dict of the caller
\* among them, and the first was drawn before the second was built
C17_Witness ==
    \E i, j \in CallsOf("HockeyRink"), k \in CallsOf("draw") :
        /\ i < k
        /\ k < j
        /\ calls[k].self = calls[i].out
        /\ calls[i].args = calls[j].args
        /\ calls[i].args.zone_line \in UserDicts
        /\ calls[i].out # calls[j].out

(***************************************************************************)
(* Plot limits                                                             *)
(***************************************************************************)
\* H and N of a rink: half the rink and the boards and one unit more, half
\* the neutral zone and a major line and one unit more
HalfLength(self) ==
    fadd(fadd(fdiv(self.rink_length, Two), self.board_thickness), One)

HalfNzone(self) ==
    fadd(fadd(fdiv(self.nzone_length, Two), self.major_line_thickness), One)

LimitCalls == CallsOf("_get_plot_range_limits")

\* C18: with no xlim given, a display range that the docstring of draw()
\* lists, in any letter case, gives the x limits of its zone: (-N, N) for
\* the neutral zone, (N - 1, H) for the offensive zone, (-H, -N + 1) for
\* the defensive zone, (0, H) for offense, (-H, 0) for defense
C18_DisplayRangeLimits ==
    \A i \in LimitCalls :
        LET self == heap[calls[i].self]
            name == Lower(calls[i].args.display_range)
        IN  (calls[i].args.xlim = PyNone /\ name # Str["full"]) =>
                calls[i].out.xlim
                    = XLims(HalfLength(self), HalfNzone(self))[name]

HalfWidth(self) ==
    fadd(fadd(fdiv(self.rink_width, Two), self.board_thickness), One)

\* the limits that a single number v is said to give: from v less the
\* shift to the end of the rink, and the whole rink when that is beyond it
FromNumber(v, shift, half) ==
    IF fsub(v, shift) >= half THEN <<-half, half>>
    ELSE <<fsub(v, shift), half>>

\* C19: an xlim that is a single number v, 0 and the negative numbers
\* among them, gives the limits (v - x shift, H), and (-H, H) when
\* v - x shift is H or more; a ylim that is a single number likewise
C19_SingleNumberLimit ==
    \A i \in LimitCalls :
        LET self == heap[calls[i].self]
            args == calls[i].args
        IN  /\ args.xlim.type = "float" =>
                   calls[i].out.xlim
                       = FromNumber(args.xlim.value, self.x_shift,
                                    HalfLength(self))
            /\ args.ylim.type = "float" =>
                   calls[i].out.ylim
                       = FromNumber(args.ylim.value, self.y_shift,
                                    HalfWidth(self))

(***************************************************************************)
(* Requests                                                                *)
(***************************************************************************)
Gets == CallsOf("get")

\* C20: make_robust_request issues at most num_retries GETs; a GET is
\* followed by another only when it raised a ConnectionError or a Timeout;
\* the first response ends the call, which returns it; any other exception
\* ends the call, which raises it
C20_RetriesOnlyConnectionErrors ==
    calls # <<>> =>
        LET frame == heap[1]
        IN  /\ Cardinality(Gets) <= frame.num_retries
            /\ frame.attempts <= frame.num_retries
            /\ \A i \in Gets :
                /\ calls[i].url = frame.url
                /\ i < Len(calls) =>
                       /\ calls[i].outcome # "response"
                       /\ Caught(calls[i].outcome)
                /\ calls[i].outcome = "response" =>
                       /\ frame.pc = "done"
                       /\ frame.raised = ""
                       /\ frame.returned = calls[i].response
                /\ (calls[i].outcome # "response" /\ ~Caught(calls[i].outcome)) =>
                       /\ frame.pc = "done"
                       /\ frame.raised = calls[i].outcome
                       /\ frame.returned = Unbound
            /\ frame.returned # Unbound =>
                   /\ Last(calls).fn = "get"
                   /\ Last(calls).outcome = "response"

\* a GET timed out, the next one was answered and the call returned it
C20_Witness ==
    /\ Len(calls) = 4
    /\ calls[2].outcome = "ReadTimeout"
    /\ calls[3].outcome = "ConnectionError"
    /\ calls[4].outcome = "response"
    /\ heap[1].returned = calls[4].response
    /\ heap[1].attempts = 2

\* C21: the session of a call sends the requests of both prefixes through
\* an adapter that holds the retry policy (total = num_retries, the
\* statuses 500, 502, 503 and 504) and the timeout
C21_AdapterRetriesAndTimesOut ==
    calls # <<>> =>
        \A prefix \in {"http://", "https://"} :
            LET adapter == heap[1].req.adapters[prefix]
            IN  /\ adapter.timeout = heap[1].timeout
                /\ adapter.max_retries.total = heap[1].num_retries
                /\ adapter.max_retries.status_forcelist
                       = {500, 502, 503, 504}

C22_LimitsOrderedAndClamped ==
    \A i \in LimitCalls :
        LET self == heap[calls[i].self]
            out == calls[i].out
        IN  /\ -HalfLength(self) <= out.xlim[1]
            /\ out.xlim[1] <= out.xlim[2]
            /\ out.xlim[2] <= HalfLength(self)
            /\ -HalfWidth(self) <= out.ylim[1]
            /\ out.ylim[1] <= out.ylim[2]
            /\ out.ylim[2] <= HalfWidth(self)

\* C27: when every GET of a call has failed with a ConnectionError or a
\* Timeout and num_retries of them were made, the call is over, it has
\* returned no response, and what it raises is a connection or timeout
\* failure
C27_ExhaustedRaisesConnectionFailure ==
    (/\ calls # <<>>
     /\ heap[1].num_retries >= 1
     /\ Cardinality(CallsOf("get")) = heap[1].num_retries
     /\ \A i \in CallsOf("get") :
            calls[i].outcome # "response" /\ Caught(calls[i].outcome)) =>
        /\ heap[1].pc = "done"
        /\ heap[1].returned = Unbound
        /\ heap[1].raised \in DOMAIN ExceptionBases
        /\ Caught(heap[1].raised)

C29_AddedFeaturesRegistered ==
    \A i \in CallsOf("HockeyRink") :
        "added_features" \in DOMAIN calls[i].args =>
            LET added == calls[i].args.added_features
                features == heap[calls[i].out]._features
            IN  /\ Len(features) >= Len(added)
                /\ SubSeq(features, Len(features) - Len(added) + 1,
                          Len(features)) = added
                /\ Len(features) = 4 + Len(added)

(***************************************************************************)
(* Markings                                                                *)
(***************************************************************************)
\* equal up to four roundings
Close(a, b) == 32 * Abs(a - b) <= Max(Abs(a), Abs(b))

\* C30: the goal line that GoalLine._get_centered_feature returns for the
\* parameters that HockeyRink.__init__ gives it (x_anchor = 0) spans, in x,
\* goal_line_anchor - feature_thickness / 2 to goal_line_anchor +
\* feature_thickness / 2, where goal_line_anchor = rink_length / 2 -
\* goal_line_dist, in the arc branch and in the rectangle branch
C30_GoalLineCentredOnAnchor ==
    \A i \in CallsOf("GoalLine._get_centered_feature") :
        calls[i].raised = "" =>
            LET self == calls[i].args
                half == self.feature_thickness \div 2
                xs == SAddK(Result(i).x, self.x_anchor)
            IN  /\ Close(SeriesMin(xs), self.goal_line_anchor - half)
                /\ Close(SeriesMax(xs), self.goal_line_anchor + half)

\* the rings built by the outer arc, connecting points, inner arc pattern
RingFeatures ==
    {"CenterFaceoffCircle._get_centered_feature",
     "NonCenterFaceoffSpot._get_centered_feature",
     "RefereeCrease._get_centered_feature",
     "CenterCircleOutline._get_centered_feature"}

\* every point of the path of call i lies, up to rounding, between the
\* inner and the outer radius of the ring (the centre is the origin)
InRing(i) ==
    LET R == calls[i].args.feature_radius
        inner == R - calls[i].args.feature_thickness
        tol == 5 * ((R * R) \div EpsInv)
    IN  \A k \in DOMAIN Result(i).x :
            LET d2 == Result(i).x[k] * Result(i).x[k]
                        + Result(i).y[k] * Result(i).y[k]
            IN  /\ d2 >= inner * inner - tol
                /\ d2 <= R * R + tol

\* C24: for a ring-shaped marking (CenterFaceoffCircle,
\* NonCenterFaceoffSpot, RefereeCrease, CenterCircleOutline) with
\* 0 < feature_thickness < feature_radius, every point of the path, the
\* connecting points included, lies at a distance between feature_radius -
\* feature_thickness and feature_radius from the centre
C24_RingPointsBetweenRadii ==
    \A i \in DOMAIN calls :
        (/\ calls[i].fn \in RingFeatures
         /\ 0 < calls[i].args.feature_thickness
         /\ calls[i].args.feature_thickness < calls[i].args.feature_radius)
            => InRing(i)

\* the features that build one half and reflect it over the y axis
HalfFeatures ==
    {"NonCenterFaceoffSpot._get_centered_feature",
     "OzoneDzoneFaceoffCircle._get_centered_feature"}

\* C25: a feature built with the symmetry shortcut returns the generated
\* half followed by its reflection over the y axis: twice the points of the
\* half, the first half being the half as generated and in its order, and
\* point k of the second half being point k of the first with x negated
\* and y unchanged.  The half is the first frame that the call allocates.
C25_HalfThenReflection ==
    \A i \in DOMAIN calls :
        (calls[i].fn \in HalfFeatures /\ calls[i].raised = "") =>
            LET out == Result(i)
                n == Len(out.x) \div 2
            IN  /\ Len(out.x) = 2 * n
                /\ Len(out.y) = 2 * n
                /\ \A k \in 1..n :
                    /\ out.x[n + k] = -out.x[k]
                    /\ out.y[n + k] = out.y[k]
                /\ Len(heap[1].x) = n
                /\ SubSeq(out.x, 1, n) = heap[1].x
                /\ SubSeq(out.y, 1, n) = heap[1].y

\* a faceoff circle with its hash marks: a point of the half left of the y
\* axis and its mirror image right of it
C25_Witness ==
    \E i \in CallsOf("OzoneDzoneFaceoffCircle._get_centered_feature") :
        /\ calls[i].raised = ""
        /\ LET out == Result(i)
               n == Len(heap[1].x)
           IN  /\ n > 0
               /\ Len(out.x) = 2 * n
               /\ \E k \in 1..n : out.x[k] <= -Half /\ out.x[n + k] >= Half

(***************************************************************************)
(* NCAA basketball generators                                              *)
(***************************************************************************)
\* the generator of the given name, called on the heap h
Generator(fn, h, a) ==
    CASE fn = "division_line" ->
            division_line(h, a.full_surf, a.rotate, a.rotation_dir)
      [] fn = "painted_area" ->
            painted_area(h, a.full_surf, a.rotate, a.rotation_dir)
      [] fn = "restricted_area_arc" ->
            restricted_area_arc(h, a.full_surf, a.rotate, a.rotation_dir)
      [] fn = "m_three_pt_line" ->
            m_three_pt_line(h, a.full_surf, a.rotate, a.rotation_dir)
      [] fn = "w_three_pt_line" ->
            w_three_pt_line(h, a.full_surf, a.rotate, a.rotation_dir)

Generators ==
    {"division_line", "painted_area", "restricted_area_arc",
     "m_three_pt_line", "w_three_pt_line"}

\* call i returned what transform.rotate(points, rotation_dir) gives for
\* the points that the same generator returns with rotate = False
RotatedPlain(i) ==
    LET plain == Generator(calls[i].fn, <<>>,
                           [calls[i].args EXCEPT !.rotate = FALSE])
        r == Rotate(plain.heap, plain.ref, calls[i].args.rotation_dir, Half)
    IN  /\ calls[i].raised = ""
        /\ plain.raised = ""
        /\ Result(i) = r.heap[r.ref]

\* C26: every NCAA basketball generator (restricted_area_arc,
\* m_three_pt_line and w_three_pt_line included), called with rotate = True
\* and any rotation_dir, completes without error and returns
\* transform.rotate(points, rotation_dir) of the points it returns with
\* rotate = False
C26_RotateTrueRotatesPlain ==
    \A i \in DOMAIN calls :
        (calls[i].fn \in Generators /\ calls[i].args.rotate) =>
            RotatedPlain(i)

====
